---- MODULE Spec2Model ----
(***************************************************************************)
(* Model of the intent-prompts extension: the provider chat client         *)
(* (errors.ts), the credential store (providerStorage.ts), the background  *)
(* action handlers (background.ts), the shell's provider check             *)
(* (SidePanelShell.tsx), the prompt editor (PromptEditor.tsx) and the      *)
(* clarification chat driver (ClarificationChat.tsx).                      *)
(*                                                                         *)
(* Texts are sequences of tokens; the token " " is whitespace.             *)
(***************************************************************************)
EXTENDS Integers, Sequences, FiniteSets, TLC

VARIABLES
    \* credential store (chrome.storage.local)
    providerApiKeys,      \* partial map provider id -> api key
    selectedProvider,     \* provider id, or None
    \* background: the last message handled and what it produced
    lastMessage,
    lastResponse,
    lastCompletion,       \* outcome of the last chatCompletion call
    \* shell
    hasProvider,          \* "null" (checking), "true", "false"
    \* prompt editor
    editorOpen,
    editorId,             \* which PromptEditor instance is (or was last) mounted
    content,
    originalContentBeforeRefinement,
    showClarification,
    savedPrompt,          \* the prompt last written by Save
    \* clarification chat (the mounted instance)
    session,              \* id of the mounted chat instance, 0 before the first
    conversation,
    isLoading,
    currentQuestionIndex,
    questions,
    isGeneratingQuestions,
    error,
    \* asynchronous work of chat instances, mounted or not
    inflight,             \* sendMessage promises not yet settled
    lastPosted,           \* the message most recently passed to sendMessage
    timers,               \* pending pacing timers of handleSend
    \* observation
    asked,                \* questions returned to the last mounted chat, -1 before
    sends,                \* answers that chat has accepted
    defers,               \* "answer later" actions that chat has accepted
    finalRequests,        \* final refinement requests that chat has sent
    sessionLog,           \* per chat instance: callbacks invoked, user cancel
    \* prompt and label storage (chrome.storage.local)
    prompts,
    labels,
    lastCall,             \* the storage call made last and what it found
    \* side panel transport (persistent connection)
    messageIdCounter,
    pendingMessages,      \* ids whose promise is neither resolved nor rejected
    port,                 \* per message id: the message on its way and back
    connection,           \* backgroundPort, open ports, reconnection timers
    \* chat client wire format
    lastWire              \* the request body built last, and from what

vars == <<providerApiKeys, selectedProvider, lastMessage, lastResponse,
          lastCompletion, hasProvider, editorOpen, editorId, content,
          originalContentBeforeRefinement, showClarification, savedPrompt,
          session, conversation, isLoading, currentQuestionIndex, questions,
          isGeneratingQuestions, error, inflight, lastPosted, timers, asked, sends,
          defers, finalRequests, sessionLog, prompts, labels, lastCall,
          messageIdCounter, pendingMessages, port, connection, lastWire>>

credVars == <<providerApiKeys, selectedProvider>>
backendVars == <<lastMessage, lastResponse, lastCompletion>>
shellVars == <<hasProvider>>
editorVars == <<editorOpen, editorId, content, originalContentBeforeRefinement,
                showClarification, savedPrompt>>
chatVars == <<session, conversation, isLoading, currentQuestionIndex,
              questions, isGeneratingQuestions, error, timers>>
asyncVars == <<inflight, lastPosted, sessionLog>>
countVars == <<asked, sends, defers, finalRequests>>
storeVars == <<prompts, labels, lastCall>>
portVars == <<messageIdCounter, pendingMessages, port, connection>>
wireVars == <<lastWire>>
moreVars == <<storeVars, portVars, wireVars>>

----------------------------------------------------------------------------
(* Bounds *)

MaxProposed == 4      \* most questions the language model proposes
MaxSessions == 2      \* chat instances mounted in one run
MaxFinal == 2         \* final requests one chat instance sends
MaxEditors == 1       \* editor instances mounted in one run
MaxAlone == 1         \* chat instances mounted in one run of SpecSession
MaxMessages == 3      \* messages in one chat request
MaxRequests == 1      \* requests sent over the connection in one run
MaxReconnectTimers == 1   \* reconnection timers pending at one time
MaxConcurrent == 2    \* requests in one run of SpecConnection and SpecRace

----------------------------------------------------------------------------
(* Texts *)

None == "none"
EmptyText == << >>

IsBlank(t) == \A i \in 1..Len(t) : t[i] = " "

RECURSIVE TrimStart(_)
TrimStart(t) ==
    IF t = << >> THEN << >>
    ELSE IF Head(t) = " " THEN TrimStart(Tail(t)) ELSE t

RECURSIVE TrimEnd(_)
TrimEnd(t) ==
    IF t = << >> THEN << >>
    ELSE IF t[Len(t)] = " " THEN TrimEnd(SubSeq(t, 1, Len(t) - 1)) ELSE t

\* String.prototype.trim
Trim(t) == TrimEnd(TrimStart(t))

\* JavaScript truthiness of a string
Truthy(t) == t # EmptyText

----------------------------------------------------------------------------
(* Provider registry (providers.ts) *)

ProviderId == {"openai", "anthropic", "google"}

PROVIDERS ==
    [id \in ProviderId |->
        [id |-> id,
         name |-> CASE id = "openai" -> "OpenAI"
                    [] id = "anthropic" -> "Anthropic"
                    [] OTHER -> "Google"]]

getProvider(id) == PROVIDERS[id]

----------------------------------------------------------------------------
(* Unified chat client (errors.ts) *)

\* What fetch() hands back: the HTTP status and the JSON body, reduced to
\* whether the text field the provider's shape names is there, and its value.
HttpStatus == {200, 401, 403, 500}
ResponseOk(http) == http.status >= 200 /\ http.status <= 299

Returned(c) ==
    [type |-> "ok", content |-> c, name |-> None, text |-> None, status |-> 0]
Thrown(n, t, s) ==
    [type |-> "throw", content |-> EmptyText, name |-> n, text |-> t,
     status |-> s]

\* an extraction that does not trim
ExtractContentUntrimmed(http) == IF http.present THEN http.text ELSE EmptyText

\* data.<path>?.trim(): undefined when the field is missing
ExtractContent(http) == IF http.present THEN Trim(http.text) ELSE EmptyText

openAIChatCompletion(apiKey, messages, http) ==
    IF ~ResponseOk(http)
    THEN Thrown("Error", "OpenAI API error", http.status)
    ELSE IF ~Truthy(ExtractContent(http))
         THEN Thrown("Error", "OpenAI API returned no content", 0)
         ELSE Returned(ExtractContent(http))

anthropicChatCompletion(apiKey, messages, http) ==
    IF ~ResponseOk(http)
    THEN Thrown("Error", "Anthropic API error", http.status)
    ELSE IF ~Truthy(ExtractContent(http))
         THEN Thrown("Error", "Anthropic API returned no content", 0)
         ELSE Returned(ExtractContent(http))

googleChatCompletion(apiKey, messages, http) ==
    IF ~ResponseOk(http)
    THEN Thrown("Error", "Google API error", http.status)
    ELSE IF ~Truthy(ExtractContent(http))
         THEN Thrown("Error", "Google API returned no content", 0)
         ELSE Returned(ExtractContent(http))

\* The catch block logs and rethrows the same error object.
chatCompletion(provider, apiKey, messages, http) ==
    CASE provider.id = "openai" -> openAIChatCompletion(apiKey, messages, http)
      [] provider.id = "anthropic" ->
            anthropicChatCompletion(apiKey, messages, http)
      [] provider.id = "google" -> googleChatCompletion(apiKey, messages, http)
      [] OTHER -> Thrown("Error", "Unsupported provider", 0)

----------------------------------------------------------------------------
(* Request bodies of the chat client (errors.ts).  A body is the message   *)
(* array it carries and its top-level system field, when it has one.       *)

NoSystem == [given |-> FALSE, content |-> EmptyText]
Lifted(text) == [given |-> TRUE, content |-> text]

\* messages.find((m) => m.role === "system"): the first one, if any
FindSystem(messages) ==
    IF \E i \in 1..Len(messages) : messages[i].role = "system"
    THEN Lifted(messages[CHOOSE i \in 1..Len(messages) :
                    /\ messages[i].role = "system"
                    /\ \A j \in 1..(i - 1) : messages[j].role # "system"
                ].content)
    ELSE NoSystem

\* messages.filter((m) => m.role !== "system")
conversationMessages(messages) ==
    SelectSeq(messages, LAMBDA m : m.role # "system")

MapRoles(messages, assistantRole) ==
    [i \in 1..Len(messages) |->
        [role |-> IF messages[i].role = "assistant" THEN assistantRole
                  ELSE "user",
         content |-> messages[i].content]]

openAIBody(messages) == [messages |-> messages, system |-> NoSystem]

anthropicBody(messages) ==
    [messages |-> MapRoles(conversationMessages(messages), "assistant"),
     system |-> FindSystem(messages)]

googleBody(messages) ==
    [messages |-> MapRoles(conversationMessages(messages), "model"),
     system |-> FindSystem(messages)]

requestBody(provider, messages) ==
    CASE provider = "openai" -> openAIBody(messages)
      [] provider = "anthropic" -> anthropicBody(messages)
      [] provider = "google" -> googleBody(messages)

----------------------------------------------------------------------------
(* Credential store (providerStorage.ts) *)

ApiKey == {"k1"}

\* a lookup that falls back to some stored-looking key
getProviderApiKeyOrDefault(keys, providerId) ==
    IF providerId \in DOMAIN keys THEN keys[providerId] ELSE "k1"

\* keys[providerId], undefined when the map has no entry
getProviderApiKey(keys, providerId) ==
    IF providerId \in DOMAIN keys THEN keys[providerId] ELSE None

setProviderApiKey(keys, providerId, apiKey) ==
    [p \in (DOMAIN keys) \cup {providerId} |->
        IF p = providerId THEN apiKey ELSE keys[p]]

deleteProviderApiKey(keys, providerId) ==
    [p \in (DOMAIN keys) \ {providerId} |-> keys[p]]

----------------------------------------------------------------------------
(* Prompt and label storage (storage.ts).  Names are texts; a storage call *)
(* returns the data it leaves in storage and, when it throws, the error.   *)

NoData == [prompts |-> << >>, labels |-> << >>]

\* oldName of saveLabel: a text, or undefined
Undefined == [given |-> FALSE, name |-> EmptyText]
Given(name) == [given |-> TRUE, name |-> name]

StoreReturned(data) == [threw |-> FALSE, error |-> None, data |-> data]
StoreThrown(e, data) == [threw |-> TRUE, error |-> e, data |-> data]

\* Array.prototype.findIndex on a name: the first position, 0 when none
\* (the code's -1)
FindIndex(list, name) ==
    IF \E i \in 1..Len(list) : list[i].name = name
    THEN CHOOSE i \in 1..Len(list) :
            /\ list[i].name = name
            /\ \A j \in 1..(i - 1) : list[j].name # name
    ELSE 0

Includes(list, x) == \E i \in 1..Len(list) : list[i] = x

\* getPrompt: the first prompt of that name, null when none
getPrompt(data, name) ==
    LET i == FindIndex(data.prompts, name)
    IN  IF i > 0 THEN [found |-> TRUE, prompt |-> data.prompts[i]]
        ELSE [found |-> FALSE,
              prompt |-> [name |-> EmptyText, content |-> EmptyText,
                          labels |-> << >>, originalContent |-> EmptyText]]

\* an append that never looks for an existing prompt of that name
savePromptAppend(data, prompt, fault) ==
    IF IsBlank(prompt.name)
    THEN StoreThrown("Prompt name cannot be empty", data)
    ELSE IF fault THEN StoreThrown("Failed to save prompt", data)
    ELSE StoreReturned([data EXCEPT !.prompts = Append(@, prompt)])

\* fault: chrome.storage.local fails while the call reads or writes
savePrompt(data, prompt, fault) ==
    IF IsBlank(prompt.name)
    THEN StoreThrown("Prompt name cannot be empty", data)
    ELSE IF fault THEN StoreThrown("Failed to save prompt", data)
    ELSE LET existingIndex == FindIndex(data.prompts, prompt.name)
         IN  IF existingIndex > 0
             THEN StoreReturned(
                      [data EXCEPT !.prompts[existingIndex] = prompt])
             ELSE StoreReturned([data EXCEPT !.prompts = Append(@, prompt)])

deletePrompt(data, name, fault) ==
    IF fault THEN StoreThrown("Failed to delete prompt", data)
    ELSE StoreReturned(
             [data EXCEPT !.prompts =
                 SelectSeq(@, LAMBDA p : p.name # name)])

\* prompt.labels.map(labelName => labelName === oldName ? newName : labelName)
RenameIn(labelNames, oldName, newName) ==
    [i \in 1..Len(labelNames) |->
        IF labelNames[i] = oldName THEN newName ELSE labelNames[i]]

\* a rename that skips the checks for a missing old label and a taken name
saveLabelUnchecked(data, label, oldName, fault) ==
    IF IsBlank(label.name) THEN StoreThrown("Label name cannot be empty", data)
    ELSE IF fault THEN StoreThrown("Failed to save label", data)
    ELSE LET i == FindIndex(data.labels, oldName.name)
         IN  StoreReturned(
                 [prompts |->
                     [k \in 1..Len(data.prompts) |->
                         [data.prompts[k] EXCEPT
                             !.labels = RenameIn(@, oldName.name, label.name)]],
                  labels |->
                     IF i > 0 THEN [data.labels EXCEPT ![i] = label]
                     ELSE Append(data.labels, label)])

\* a save that appends without looking for a label of that name
saveLabelAppending(data, label, oldName, fault) ==
    IF IsBlank(label.name) THEN StoreThrown("Label name cannot be empty", data)
    ELSE IF fault THEN StoreThrown("Failed to save label", data)
    ELSE StoreReturned([data EXCEPT !.labels = Append(@, label)])

\* a rename that touches only the first prompt
saveLabelFirstPromptOnly(data, label, oldName, fault) ==
    IF IsBlank(label.name) THEN StoreThrown("Label name cannot be empty", data)
    ELSE IF fault THEN StoreThrown("Failed to save label", data)
    ELSE LET i == FindIndex(data.labels, oldName.name)
             e == FindIndex(data.labels, label.name)
         IN  IF oldName.given /\ oldName.name # label.name
             THEN IF i = 0 THEN StoreThrown("Cannot rename label: not found",
                                            data)
                  ELSE IF e > 0
                  THEN StoreThrown("Cannot rename label: name exists", data)
                  ELSE StoreReturned(
                      [prompts |->
                          [k \in 1..Len(data.prompts) |->
                              IF k = 1
                              THEN [data.prompts[k] EXCEPT
                                       !.labels = RenameIn(@, oldName.name,
                                                           label.name)]
                              ELSE data.prompts[k]],
                       labels |-> [data.labels EXCEPT ![i] = label]])
             ELSE IF e > 0
                  THEN StoreReturned([data EXCEPT !.labels[e] = label])
                  ELSE StoreReturned([data EXCEPT !.labels = Append(@, label)])

saveLabel(data, label, oldName, fault) ==
    IF IsBlank(label.name) THEN StoreThrown("Label name cannot be empty", data)
    ELSE IF fault THEN StoreThrown("Failed to save label", data)
    ELSE LET isRename == oldName.given /\ oldName.name # label.name
         IN  IF isRename
             THEN LET oldLabelIndex == FindIndex(data.labels, oldName.name)
                      conflictingLabel ==
                          \E i \in 1..Len(data.labels) :
                              /\ data.labels[i].name = label.name
                              /\ data.labels[i].name # oldName.name
                  IN  IF oldLabelIndex = 0
                      THEN StoreThrown("Cannot rename label: not found", data)
                      ELSE IF conflictingLabel
                      THEN StoreThrown("Cannot rename label: name exists",
                                       data)
                      ELSE StoreReturned(
                          [prompts |->
                              [k \in 1..Len(data.prompts) |->
                                  [data.prompts[k] EXCEPT
                                      !.labels = RenameIn(@, oldName.name,
                                                          label.name)]],
                           labels |->
                              [data.labels EXCEPT ![oldLabelIndex] = label]])
             ELSE LET existingIndex == FindIndex(data.labels, label.name)
                  IN  IF existingIndex > 0
                      THEN StoreReturned(
                               [data EXCEPT !.labels[existingIndex] = label])
                      ELSE StoreReturned(
                               [data EXCEPT !.labels = Append(@, label)])

\* a delete that leaves the prompts as they are
deleteLabelOnly(data, name, fault) ==
    IF fault THEN StoreThrown("Failed to delete label", data)
    ELSE StoreReturned(
             [data EXCEPT !.labels = SelectSeq(@, LAMBDA l : l.name # name)])

deleteLabel(data, name, fault) ==
    IF fault THEN StoreThrown("Failed to delete label", data)
    ELSE StoreReturned(
             [prompts |->
                 [k \in 1..Len(data.prompts) |->
                     IF Includes(data.prompts[k].labels, name)
                     THEN [data.prompts[k] EXCEPT
                              !.labels = SelectSeq(@, LAMBDA n : n # name)]
                     ELSE data.prompts[k]],
              labels |-> SelectSeq(data.labels, LAMBDA l : l.name # name)])

----------------------------------------------------------------------------
(* Refinement orchestrator (refinePrompt module; its source is not part of *)
(* the repository files at hand, so it follows spec.md section 4.3)        *)

MaxQuestions == 3

QName == <<"q1", "q2", "q3", "q4", "q5", "q6">>
QuestionToken == {QName[i] : i \in 1..Len(QName)}

\* The model's structured output proposing n questions, as the text the chat
\* client returns: an opening token, then one token per question.
ClarifyOutput(n) == <<"{">> \o [i \in 1..n |-> QName[i]]

\* step 4: the questions of the structured output, in order, each as a text
ParseQuestions(c) ==
    LET qs == SelectSeq(c, LAMBDA tok : tok \in QuestionToken)
    IN  [i \in 1..Len(qs) |-> <<qs[i]>>]

\* no truncation at all
KeepAllQuestions(qs) == qs

\* step 4: never more than 3, truncated preserving order
TruncateQuestions(qs) ==
    IF Len(qs) > MaxQuestions THEN SubSeq(qs, 1, MaxQuestions) ELSE qs

OrchReturned(qs, refined) ==
    [type |-> "ok", questions |-> qs, refinedPrompt |-> refined,
     name |-> None, text |-> None, status |-> 0, cause |-> None,
     fetched |-> TRUE]
OrchThrown(n, t, s, c, f) ==
    [type |-> "throw", questions |-> << >>, refinedPrompt |-> EmptyText,
     name |-> n, text |-> t, status |-> s, cause |-> c, fetched |-> f]

\* step 2 of both operations: the active provider and its key
NoProviderConfigured(keys, providerId) ==
    \/ providerId = None
    \/ getProviderApiKey(keys, providerId) = None

generateClarifyingQuestions(promptContent, keys, providerId, http) ==
    IF IsBlank(promptContent)
    THEN OrchThrown("InvalidInputError", "Prompt text is required", 0, None,
                    FALSE)
    ELSE IF NoProviderConfigured(keys, providerId)
    THEN OrchThrown("NoProviderConfiguredError", "No provider configured", 0,
                    None, FALSE)
    ELSE LET r == chatCompletion(getProvider(providerId),
                                 getProviderApiKey(keys, providerId),
                                 <<promptContent>>, http)
         IN  IF r.type = "throw"
             THEN OrchThrown("RefinementProviderError", r.text, r.status,
                             r.name, TRUE)
             ELSE OrchReturned(TruncateQuestions(ParseQuestions(r.content)),
                               EmptyText)

generateFinalRefinedPrompt(promptContent, history, keys, providerId, http) ==
    IF IsBlank(promptContent)
    THEN OrchThrown("InvalidInputError", "Prompt text is required", 0, None,
                    FALSE)
    ELSE IF NoProviderConfigured(keys, providerId)
    THEN OrchThrown("NoProviderConfiguredError", "No provider configured", 0,
                    None, FALSE)
    ELSE LET r == chatCompletion(getProvider(providerId),
                                 getProviderApiKey(keys, providerId),
                                 <<promptContent>> \o history, http)
         IN  IF r.type = "throw"
             THEN OrchThrown("RefinementProviderError", r.text, r.status,
                             r.name, TRUE)
             ELSE IF IsBlank(r.content)
             THEN OrchThrown("EmptyRefinementError", "Empty refinement", 0,
                             None, TRUE)
             ELSE OrchReturned(<< >>, Trim(r.content))

----------------------------------------------------------------------------
(* Background action handlers (background.ts) *)

NoError == [text |-> None, status |-> 0]

Failure(t, s, f) ==
    [success |-> FALSE, error |-> [text |-> t, status |-> s],
     questions |-> << >>, hasQuestions |-> FALSE, refinedText |-> EmptyText,
     fetched |-> f]

\* conversationHistory as it arrives: an array, missing, or something else
HistoryKind == {"array", "missing", "notArray"}

handleGenerateClarifyingQuestions(message, keys, providerId, http) ==
    IF IsBlank(message.promptContent)
    THEN Failure("Prompt content is required", 0, FALSE)
    ELSE LET result == generateClarifyingQuestions(message.promptContent,
                                                   keys, providerId, http)
         IN  IF result.type = "throw"
             THEN Failure(result.text, result.status, result.fetched)
             ELSE [success |-> TRUE, error |-> NoError,
                   questions |-> result.questions, hasQuestions |-> TRUE,
                   refinedText |-> EmptyText, fetched |-> result.fetched]

\* a handler that does not look at conversationHistory before the call
handleGenerateFinalRefinedPromptLax(message, keys, providerId, http) ==
    IF IsBlank(message.promptContent)
    THEN Failure("Prompt content is required", 0, FALSE)
    ELSE LET result == generateFinalRefinedPrompt(message.promptContent,
                           message.conversationHistory, keys, providerId,
                           http)
         IN  IF result.type = "throw"
             THEN Failure(result.text, result.status, result.fetched)
             ELSE [success |-> TRUE, error |-> NoError, questions |-> << >>,
                   hasQuestions |-> FALSE,
                   refinedText |-> result.refinedPrompt,
                   fetched |-> result.fetched]

handleGenerateFinalRefinedPrompt(message, keys, providerId, http) ==
    IF IsBlank(message.promptContent)
    THEN Failure("Prompt content is required", 0, FALSE)
    ELSE IF message.historyKind # "array"
    THEN Failure("Conversation history is required", 0, FALSE)
    ELSE LET result == generateFinalRefinedPrompt(message.promptContent,
                           message.conversationHistory, keys, providerId,
                           http)
         IN  IF result.type = "throw"
             THEN Failure(result.text, result.status, result.fetched)
             ELSE [success |-> TRUE, error |-> NoError, questions |-> << >>,
                   hasQuestions |-> FALSE,
                   refinedText |-> result.refinedPrompt,
                   fetched |-> result.fetched]

handleGetSettings(keys, providerId) ==
    [success |-> TRUE, providerApiKeys |-> keys,
     selectedProvider |-> providerId]

handleMessage(message, keys, providerId, http) ==
    CASE message.action = "generateClarifyingQuestions" ->
            handleGenerateClarifyingQuestions(message, keys, providerId, http)
      [] message.action = "generateFinalRefinedPrompt" ->
            handleGenerateFinalRefinedPrompt(message, keys, providerId, http)
      [] OTHER -> Failure("Unknown action", 0, FALSE)

----------------------------------------------------------------------------
(* Shell provider check (SidePanelShell.tsx) *)

\* !!(hasSelectedProvider && hasApiKeys) on a getSettings response
ProviderConfigured(settingsResponse) ==
    LET hasSelectedProvider == settingsResponse.selectedProvider # None
        hasApiKeys == Cardinality(DOMAIN settingsResponse.providerApiKeys) > 0
    IN  hasSelectedProvider /\ hasApiKeys

----------------------------------------------------------------------------
(* Inputs of the editor and the chat *)

\* stored prompts the editor can be opened on
StoredPrompts == { [content |-> <<"a">>, originalContent |-> EmptyText] }

\* what the user types into the editor's content field
ContentInputs == { <<"a", " ">>, <<" ">> }

\* what the user types into the chat's answer field
AnswerInputs == { <<" ", "a">>, <<" ">> }

\* provider outcomes for a question request and for a refinement request
ClarifyHttp ==
    { [status |-> 200, present |-> TRUE, text |-> ClarifyOutput(n)] :
        n \in 0..MaxProposed }
    \cup { [status |-> 500, present |-> FALSE, text |-> EmptyText] }

RefineHttp ==
    { [status |-> 200, present |-> TRUE, text |-> t] :
        t \in { <<"a">>, <<" ", "b">> } }
    \cup { [status |-> 200, present |-> FALSE, text |-> EmptyText] }

\* a sendMessage promise either resolves with the handler's response or is
\* rejected by the transport (timeout, disconnect)
Settle == {"response", "reject"}

Turn(r, c) == [role |-> r, content |-> c]

FallbackRefineError ==
    [text |-> "Failed to generate refined prompt", status |-> 0]
FallbackQuestionsError ==
    [text |-> "Failed to generate questions", status |-> 0]
TransportError == [text |-> "Message timeout", status |-> 0]

ErrorOf(resp, fallback) ==
    IF resp.error.text # None THEN resp.error ELSE fallback

NewLog ==
    [onComplete |-> 0, onCancel |-> 0, userCancel |-> "no", alert |-> None,
     shown |-> FALSE]  \* alert: the message alerted when initialization failed

Log(s, field, value) ==
    [sessionLog EXCEPT ![s] = [@ EXCEPT ![field] = value]]

\* a failure of the fast path that is handled by both catch blocks
LogInitFailureTwice(s, e) ==
    [sessionLog EXCEPT ![s] = [@ EXCEPT !.alert = e.text,
                                        !.onCancel = @ + 2]]

\* the catch blocks of generateQuestions: alert(errorMessage), then onCancel()
LogInitFailure(s, e) ==
    [sessionLog EXCEPT ![s] = [@ EXCEPT !.alert = e.text,
                                        !.onCancel = @ + 1]]

\* A pending sendMessage promise: the action and prompt content of its
\* message, and what its continuation closes over (the chat instance, the
\* editor instance, and the editor's content and archived original as of the
\* render that created the handler).
Request(s, kind, e, c, o) ==
    [session |-> s, kind |-> kind,
     action |-> IF kind = "questions" THEN "generateClarifyingQuestions"
                ELSE "generateFinalRefinedPrompt",
     promptContent |-> c, historyKind |-> "array", editor |-> e,
     capContent |-> c, capOrig |-> o]

\* The message of a request as passed to sendMessage
Posted(req, history) ==
    [action |-> req.action, promptContent |-> req.promptContent,
     conversationHistory |-> history, session |-> req.session]

NothingPosted ==
    [action |-> None, promptContent |-> EmptyText,
     conversationHistory |-> << >>, session |-> 0]

\* the chat instance s is the one on screen
Mounted(s) == showClarification /\ s = session

\* Unmounting discards the instance's state; its pending pacing timer can
\* only call that instance's state setters, which no longer have any effect.

\* the closure of a request still points at the editor instance on screen
EditorLive(req) == editorOpen /\ req.editor = editorId

ChatUnmounted ==
    /\ conversation' = << >>
    /\ isLoading' = FALSE
    /\ currentQuestionIndex' = 0
    /\ questions' = << >>
    /\ isGeneratingQuestions' = FALSE
    /\ error' = NoError
    /\ timers' = {}
    /\ asked' = -1
    /\ sends' = 0
    /\ defers' = 0
    /\ finalRequests' = 0

----------------------------------------------------------------------------
(* Prompt editor (PromptEditor.tsx) *)

\* refined.trim() !== content.trim()
WasRefined(refined, c) == Trim(refined) # Trim(c)

\* the archived original after onComplete(refined), as seen by a closure
\* that captured content c and archived original o; current is the state
ArchiveOriginal(refined, c, o, current) ==
    IF WasRefined(refined, c) /\ ~Truthy(o) THEN c ELSE current

\* the prompt object Save hands to onSave
SavedPromptOf(c, o) == [content |-> c, originalContent |-> o]

\* an onComplete that closes the chat without taking the refined text
onCompleteKeepsContent(req, refined) ==
    IF EditorLive(req)
    THEN /\ showClarification' = FALSE
         /\ ChatUnmounted
         /\ UNCHANGED <<editorOpen, editorId, savedPrompt, session, content,
                        originalContentBeforeRefinement>>
    ELSE UNCHANGED <<editorVars, chatVars, countVars>>

\* onComplete prop of the chat, as created by the render req was sent from
onComplete(req, refined) ==
    IF EditorLive(req)
    THEN /\ originalContentBeforeRefinement' =
                ArchiveOriginal(refined, req.capContent, req.capOrig,
                                originalContentBeforeRefinement)
         /\ content' = refined
         /\ showClarification' = FALSE
         /\ ChatUnmounted
         /\ UNCHANGED <<editorOpen, editorId, savedPrompt, session>>
    ELSE UNCHANGED <<editorVars, chatVars, countVars>>

\* onCancel prop of the chat
onCancel(req) ==
    IF EditorLive(req)
    THEN /\ showClarification' = FALSE
         /\ ChatUnmounted
         /\ UNCHANGED <<editorOpen, editorId, content,
                        originalContentBeforeRefinement, savedPrompt,
                        session>>
    ELSE UNCHANGED <<editorVars, chatVars, countVars>>

\* the shell opens the editor on the stored prompt
SelectPrompt ==
    /\ ~editorOpen
    /\ editorId < MaxEditors
    /\ editorOpen' = TRUE
    /\ editorId' = editorId + 1
    /\ content' = savedPrompt.content
    /\ originalContentBeforeRefinement' = savedPrompt.originalContent
    /\ showClarification' = FALSE
    /\ UNCHANGED <<savedPrompt, credVars, backendVars, shellVars, moreVars, chatVars,
                   asyncVars, countVars>>

\* the content textarea's onChange
EditContent(c) ==
    /\ editorOpen /\ ~showClarification
    /\ content' = c
    /\ UNCHANGED <<editorOpen, editorId, originalContentBeforeRefinement,
                   showClarification, savedPrompt, credVars, backendVars,
                   shellVars, moreVars, chatVars, asyncVars, countVars>>

\* the Save button; the shell stores the prompt and closes the editor
Save ==
    /\ editorOpen /\ ~showClarification
    /\ savedPrompt' = SavedPromptOf(content, originalContentBeforeRefinement)
    /\ editorOpen' = FALSE
    /\ content' = EmptyText
    /\ originalContentBeforeRefinement' = EmptyText
    /\ UNCHANGED <<editorId, showClarification, credVars, backendVars,
                   shellVars, moreVars, chatVars, asyncVars, countVars>>

\* the Cancel button
CancelEdit ==
    /\ editorOpen /\ ~showClarification
    /\ editorOpen' = FALSE
    /\ content' = EmptyText
    /\ originalContentBeforeRefinement' = EmptyText
    /\ UNCHANGED <<editorId, showClarification, savedPrompt, credVars,
                   backendVars, shellVars, moreVars, chatVars, asyncVars, countVars>>

\* the Refine button: the chat is mounted and its mount effect sends the
\* question request
MountChat(limit) ==
    /\ editorOpen /\ ~showClarification
    /\ Truthy(Trim(content))
    /\ session < limit
    /\ showClarification' = TRUE
    /\ session' = session + 1
    /\ conversation' = << >>
    /\ isLoading' = FALSE
    /\ currentQuestionIndex' = 0
    /\ questions' = << >>
    /\ isGeneratingQuestions' = TRUE
    /\ error' = NoError
    /\ timers' = {}
    /\ LET req == Request(session + 1, "questions", editorId, content,
                          originalContentBeforeRefinement)
       IN  /\ inflight' = inflight \cup {req}
           /\ lastPosted' = Posted(req, << >>)
    /\ asked' = -1
    /\ sends' = 0
    /\ defers' = 0
    /\ finalRequests' = 0
    /\ UNCHANGED <<editorOpen, editorId, content,
                   originalContentBeforeRefinement, savedPrompt, credVars,
                   backendVars, shellVars, moreVars, sessionLog>>

HandleRefine == MountChat(MaxSessions)

----------------------------------------------------------------------------
(* Clarification chat (ClarificationChat.tsx) *)

\* The message of req as the background handler sees it.  What a handler
\* answers depends on the transcript only through its being an array; the
\* transcript itself is the one recorded in lastPosted when it was sent.
MessageTo(req) ==
    [action |-> req.action, promptContent |-> req.promptContent,
     historyKind |-> req.historyKind, conversationHistory |-> << >>]

\* a transport that keeps a settled request in flight and sends it again
AfterSettleResend(req, next) == inflight \cup next

\* The requests in flight once req has settled and the continuation has
\* sent the requests of next: a settled promise is dropped from
\* pendingMessages and nothing sends its message again.
AfterSettle(req, next) == (inflight \ {req}) \cup next

\* what the awaited sendMessage yields for req
Settled(req, settle, http) ==
    IF settle = "reject"
    THEN Failure(TransportError.text, 0, FALSE)
    ELSE handleMessage(MessageTo(req), providerApiKeys, selectedProvider,
                       http)

\* the question at the 0-based index i
QuestionAt(qs, i) == qs[i + 1]

\* an off-by-one that takes the last but one question for the last
HasNextOffByOne(i, qs) == i < Len(qs) - 2

\* handleSend / handleAnswerLater: is there a next question after index i
HasNext(i, qs) == i < Len(qs) - 1

\* the transcript handleSend works with after a submitted answer
WithAnswer(conv, input) == Append(conv, Turn("user", Trim(input)))

\* showing the question just handled once more instead of the next one
WithQuestionRepeated(conv, qs, nextIndex) ==
    Append(conv, Turn("assistant", QuestionAt(qs, nextIndex - 1)))

\* the conversation once the next question is shown
WithQuestion(conv, qs, nextIndex) ==
    Append(conv, Turn("assistant", QuestionAt(qs, nextIndex)))

\* a deferral of the last question that sends no transcript at all
DeferredTranscriptDropped(conv) == << >>

\* the transcript handleAnswerLater sends on the last question
DeferredTranscript(conv) == conv

\* generateQuestions, from the response of the question request onwards
GenerateQuestionsResponse(req, settle, http) ==
    /\ req \in inflight /\ req.kind = "questions"
    /\ LET resp == Settled(req, settle, http)
           s == req.session
       IN  IF resp.success /\ resp.hasQuestions
           THEN /\ IF Len(resp.questions) = 0
                   THEN /\ LET fast == Request(s, "fast", req.editor,
                                                req.capContent, req.capOrig)
                           IN  /\ inflight' = AfterSettle(req, {fast})
                               /\ lastPosted' = Posted(fast, << >>)
                        /\ questions' =
                              IF Mounted(s) THEN resp.questions ELSE questions
                        /\ UNCHANGED <<conversation, isGeneratingQuestions,
                                       sessionLog>>
                   ELSE /\ inflight' = AfterSettle(req, {})
                        /\ UNCHANGED lastPosted
                        /\ IF Mounted(s)
                           THEN /\ questions' = resp.questions
                                /\ conversation' =
                                      <<Turn("assistant",
                                             QuestionAt(resp.questions, 0))>>
                                /\ isGeneratingQuestions' = FALSE
                                /\ sessionLog' = Log(s, "shown", TRUE)
                           ELSE UNCHANGED <<questions, conversation,
                                            isGeneratingQuestions,
                                            sessionLog>>
                /\ asked' = IF Mounted(s) THEN Len(resp.questions) ELSE asked
                /\ UNCHANGED <<editorVars, session, isLoading,
                               currentQuestionIndex, error, timers,
                               sends, defers, finalRequests>>
           ELSE /\ inflight' = AfterSettle(req, {})
                /\ onCancel(req)
                /\ sessionLog' =
                      LogInitFailure(s, ErrorOf(resp, FallbackQuestionsError))
                /\ UNCHANGED lastPosted
    /\ UNCHANGED <<credVars, backendVars, shellVars, moreVars>>

\* generateQuestions, from the response of the fast-path refinement onwards
FastPathResponse(req, settle, http) ==
    /\ req \in inflight /\ req.kind = "fast"
    /\ inflight' = AfterSettle(req, {})
    /\ LET resp == Settled(req, settle, http)
           s == req.session
       IN  IF resp.success /\ Truthy(resp.refinedText)
           THEN /\ onComplete(req, resp.refinedText)
                /\ sessionLog' =
                      Log(s, "onComplete", sessionLog[s].onComplete + 1)
           ELSE /\ onCancel(req)
                /\ sessionLog' =
                      LogInitFailure(s, ErrorOf(resp, FallbackRefineError))
    /\ UNCHANGED <<credVars, backendVars, shellVars, moreVars, lastPosted>>

\* handleSend with the text of the answer field
HandleSend(input) ==
    /\ showClarification /\ ~isGeneratingQuestions
    /\ IF IsBlank(input) \/ isLoading
       THEN UNCHANGED <<conversation, isLoading, inflight, lastPosted,
                        timers, sends, finalRequests>>
       ELSE LET updatedConv == WithAnswer(conversation, input)
            IN  /\ conversation' = updatedConv
                /\ isLoading' = TRUE
                /\ sends' = sends + 1
                /\ IF HasNext(currentQuestionIndex, questions)
                   THEN /\ timers' = timers \cup
                              {[session |-> session,
                                updatedConv |-> updatedConv,
                                nextIndex |-> currentQuestionIndex + 1]}
                        /\ UNCHANGED <<inflight, lastPosted, finalRequests>>
                   ELSE /\ finalRequests < MaxFinal
                        /\ LET req == Request(session, "final", editorId,
                                       content,
                                       originalContentBeforeRefinement)
                           IN  /\ inflight' = inflight \cup {req}
                               /\ lastPosted' = Posted(req, updatedConv)
                        /\ finalRequests' = finalRequests + 1
                        /\ UNCHANGED timers
    /\ UNCHANGED <<credVars, backendVars, shellVars, moreVars, editorVars, session,
                   currentQuestionIndex, questions, isGeneratingQuestions,
                   error, asked, defers, sessionLog>>

\* the pacing timer of handleSend fires
NextQuestionTimer(t) ==
    /\ t \in timers
    /\ timers' = timers \ {t}
    /\ currentQuestionIndex' = t.nextIndex
    /\ conversation' = WithQuestion(t.updatedConv, questions, t.nextIndex)
    /\ isLoading' = FALSE
    /\ UNCHANGED <<credVars, backendVars, shellVars, moreVars, editorVars, session,
                   questions, isGeneratingQuestions, error, inflight,
                   lastPosted, sessionLog, countVars>>

\* the "Answer later" button, shown under the last message when that is an
\* assistant turn and nothing is pending
HandleAnswerLater ==
    /\ showClarification
    /\ Len(conversation) > 0
    /\ conversation[Len(conversation)].role = "assistant"
    /\ ~(isLoading \/ isGeneratingQuestions)
    /\ defers' = defers + 1
    /\ IF HasNext(currentQuestionIndex, questions)
       THEN /\ currentQuestionIndex' = currentQuestionIndex + 1
            /\ conversation' = WithQuestion(conversation, questions,
                                            currentQuestionIndex + 1)
            /\ UNCHANGED <<isLoading, inflight, lastPosted, finalRequests>>
       ELSE /\ finalRequests < MaxFinal
            /\ isLoading' = TRUE
            /\ LET req == Request(session, "final", editorId, content,
                                  originalContentBeforeRefinement)
               IN  /\ inflight' = inflight \cup {req}
                   /\ lastPosted' =
                         Posted(req, DeferredTranscript(conversation))
            /\ finalRequests' = finalRequests + 1
            /\ UNCHANGED <<currentQuestionIndex, conversation>>
    /\ UNCHANGED <<credVars, backendVars, shellVars, moreVars, editorVars, session,
                   questions, isGeneratingQuestions, error, timers, asked,
                   sends, sessionLog>>

\* handleSend / handleAnswerLater, from the response of the final request
FinalResponse(req, settle, http) ==
    /\ req \in inflight /\ req.kind = "final"
    /\ inflight' = AfterSettle(req, {})
    /\ LET resp == Settled(req, settle, http)
           s == req.session
       IN  IF resp.success /\ Truthy(resp.refinedText)
           THEN /\ onComplete(req, resp.refinedText)
                /\ sessionLog' =
                      Log(s, "onComplete", sessionLog[s].onComplete + 1)
           ELSE /\ IF Mounted(s)
                   THEN /\ error' = ErrorOf(resp, FallbackRefineError)
                        /\ isLoading' = FALSE
                   ELSE UNCHANGED <<error, isLoading>>
                /\ UNCHANGED <<editorVars, session, conversation,
                               currentQuestionIndex, questions,
                               isGeneratingQuestions, timers, sessionLog,
                               countVars>>
    /\ UNCHANGED <<credVars, backendVars, shellVars, moreVars, lastPosted>>

\* the back arrow in the chat header
UserCancel ==
    /\ showClarification
    /\ showClarification' = FALSE
    /\ ChatUnmounted
    /\ sessionLog' = Log(session, "userCancel",
                         IF Len(conversation) > 0 THEN "shown" ELSE "init")
    /\ UNCHANGED <<credVars, backendVars, shellVars, moreVars, editorOpen, editorId,
                   content, originalContentBeforeRefinement, savedPrompt,
                   session, inflight, lastPosted>>

----------------------------------------------------------------------------
(* Inputs and steps of the prompt and label storage *)

PromptNames == { <<"x">>, <<"y">>, <<" ">> }
LabelNames == { <<"p">>, <<"q">>, <<" ">> }
\* label lists of prompts; no label named z is ever stored
LabelLists == { << >>, << <<"p">>, <<"z">> >> }

\* originalContent is optional: the empty text stands for its absence
PromptInputs ==
    [name : PromptNames, content : { <<"a">> }, labels : LabelLists,
     originalContent : { EmptyText, <<"o">> }]
LabelInputs == [name : LabelNames, context : { <<"c">> }]
OldNames == { Undefined } \cup { Given(n) : n \in LabelNames \ { <<" ">> } }

NoPrompt == [name |-> EmptyText, content |-> EmptyText, labels |-> << >>,
             originalContent |-> EmptyText]
NoLabel == [name |-> EmptyText, context |-> EmptyText]

Data == [prompts |-> prompts, labels |-> labels]

Call(op, prompt, label, oldName, name, r) ==
    [op |-> op, prompt |-> prompt, label |-> label, oldName |-> oldName,
     name |-> name, before |-> Data, threw |-> r.threw, error |-> r.error]

NoCall == [op |-> "none", prompt |-> NoPrompt, label |-> NoLabel,
           oldName |-> Undefined, name |-> EmptyText, before |-> NoData,
           threw |-> FALSE, error |-> None]

Commit(r) ==
    /\ prompts' = r.data.prompts
    /\ labels' = r.data.labels

SavePrompt(prompt, fault) ==
    LET r == savePrompt(Data, prompt, fault)
    IN  /\ Commit(r)
        /\ lastCall' = Call("savePrompt", prompt, NoLabel, Undefined,
                            prompt.name, r)

DeletePrompt(name, fault) ==
    LET r == deletePrompt(Data, name, fault)
    IN  /\ Commit(r)
        /\ lastCall' = Call("deletePrompt", NoPrompt, NoLabel, Undefined,
                            name, r)

SaveLabel(label, oldName, fault) ==
    LET r == saveLabel(Data, label, oldName, fault)
    IN  /\ Commit(r)
        /\ lastCall' = Call("saveLabel", NoPrompt, label, oldName,
                            label.name, r)

DeleteLabel(name, fault) ==
    LET r == deleteLabel(Data, name, fault)
    IN  /\ Commit(r)
        /\ lastCall' = Call("deleteLabel", NoPrompt, NoLabel, Undefined,
                            name, r)

StoreIdle ==
    /\ prompts = << >>
    /\ labels = << >>
    /\ lastCall = NoCall

\* the connection state of the side panel before it is mounted:
\* backgroundPort is null (FALSE), no port is open, no reconnection timer is
\* pending, no sendMessageToBackground call is in its 50 ms wait, none has
\* fallen back to chrome.runtime.sendMessage
NoConnection ==
    [backgroundPort |-> FALSE, open |-> 0, timers |-> 0, threw |-> FALSE,
     mounted |-> FALSE, waiting |-> << >>, fallback |-> << >>]

PortIdle ==
    /\ messageIdCounter = 0
    /\ pendingMessages = {}
    /\ port = << >>
    /\ connection = NoConnection

----------------------------------------------------------------------------
(* Storage and settings handlers and the connection router               *)
(* (background.ts).  A handler's outcome is its response and what it      *)
(* leaves in storage.                                                     *)

\* step 1 of the convenience operation: Operation A, and Operation B when
\* A returns no question (spec.md section 6); http2 answers the second call
refinePrompt(promptContent, keys, providerId, http, http2) ==
    LET a == generateClarifyingQuestions(promptContent, keys, providerId,
                                         http)
    IN  IF a.type = "throw" \/ Len(a.questions) > 0 THEN a
        ELSE generateFinalRefinedPrompt(promptContent, << >>, keys,
                                        providerId, http2)

Succeeded ==
    [success |-> TRUE, error |-> NoError, questions |-> << >>,
     hasQuestions |-> FALSE, refinedText |-> EmptyText, fetched |-> FALSE]

Outcome(response, data, keys, providerId) ==
    [response |-> response, data |-> data, keys |-> keys,
     selectedProvider |-> providerId]

\* chrome.storage fails during the handler's storage call, or afterwards
\* while the handler reads the lists for its response
Fault == {"none", "call", "reread"}

\* the response after a storage call that did not throw
Reread(fault) ==
    IF fault = "reread" THEN Failure("Failed to get all prompts", 0, FALSE)
    ELSE Succeeded

handleGetPrompts(data, fault) ==
    IF fault = "none" THEN Succeeded
    ELSE Failure("Failed to get all prompts", 0, FALSE)

handleGetLabels(data, fault) ==
    IF fault = "none" THEN Succeeded
    ELSE Failure("Failed to get all labels", 0, FALSE)

handleSavePrompt(message, data, fault) ==
    IF message.prompt = NoPrompt
    THEN [response |-> Failure("Prompt object is required", 0, FALSE),
          data |-> data]
    ELSE IF IsBlank(message.prompt.name)
    THEN [response |-> Failure("Prompt name cannot be empty", 0, FALSE),
          data |-> data]
    ELSE LET r == savePrompt(data, message.prompt, fault = "call")
         IN  [response |-> IF r.threw THEN Failure(r.error, 0, FALSE)
                           ELSE Reread(fault),
              data |-> r.data]

handleDeletePrompt(message, data, fault) ==
    IF IsBlank(message.name)
    THEN [response |-> Failure("Prompt name is required", 0, FALSE),
          data |-> data]
    ELSE LET r == deletePrompt(data, message.name, fault = "call")
         IN  [response |-> IF r.threw THEN Failure(r.error, 0, FALSE)
                           ELSE Reread(fault),
              data |-> r.data]

handleSaveLabel(message, data, fault) ==
    IF message.label = NoLabel
    THEN [response |-> Failure("Label object is required", 0, FALSE),
          data |-> data]
    ELSE IF IsBlank(message.label.name)
    THEN [response |-> Failure("Label name cannot be empty", 0, FALSE),
          data |-> data]
    ELSE LET r == saveLabel(data, message.label, message.oldName,
                            fault = "call")
         IN  [response |-> IF r.threw THEN Failure(r.error, 0, FALSE)
                           ELSE Reread(fault),
              data |-> r.data]

handleDeleteLabel(message, data, fault) ==
    IF IsBlank(message.name)
    THEN [response |-> Failure("Label name is required", 0, FALSE),
          data |-> data]
    ELSE LET r == deleteLabel(data, message.name, fault = "call")
         IN  [response |-> IF r.threw THEN Failure(r.error, 0, FALSE)
                           ELSE Reread(fault),
              data |-> r.data]

\* a handler that stores the refined text in the prompt it refined
handleRefinePromptSaving(message, data, keys, providerId, http, http2, fault) ==
    LET found == getPrompt(data, message.name)
        result == refinePrompt(found.prompt.content, keys, providerId, http,
                               http2)
    IN  IF ~found.found \/ result.type = "throw"
        THEN [response |-> Failure("Prompt not refined", 0, FALSE),
              data |-> data]
        ELSE [response |-> [Succeeded EXCEPT
                               !.refinedText = result.refinedPrompt],
              data |-> savePrompt(data,
                           [found.prompt EXCEPT
                               !.content = result.refinedPrompt],
                           FALSE).data]

handleRefinePrompt(message, data, keys, providerId, http, http2, fault) ==
    IF IsBlank(message.name)
    THEN [response |-> Failure("Prompt name is required", 0, FALSE),
          data |-> data]
    ELSE IF fault # "none"
    THEN [response |-> Failure("Failed to get prompt", 0, FALSE),
          data |-> data]
    ELSE LET found == getPrompt(data, message.name)
         IN  IF ~found.found
             THEN [response |-> Failure("Prompt not found", 0, FALSE),
                   data |-> data]
             ELSE LET result == refinePrompt(found.prompt.content, keys,
                                             providerId, http, http2)
                  IN  [response |->
                          IF result.type = "throw"
                          THEN Failure(result.text, result.status,
                                       result.fetched)
                          ELSE [success |-> TRUE, error |-> NoError,
                                questions |-> result.questions,
                                hasQuestions |-> Len(result.questions) > 0,
                                refinedText |-> result.refinedPrompt,
                                fetched |-> result.fetched],
                       data |-> data]

handleSetProviderApiKey(message, keys, fault) ==
    IF fault # "none"
    THEN [response |-> Failure("Failed to set API key", 0, FALSE),
          keys |-> keys]
    ELSE [response |-> Succeeded,
          keys |-> setProviderApiKey(keys, message.providerId,
                                     message.apiKey)]

handleDeleteProviderApiKey(message, keys, fault) ==
    IF fault # "none"
    THEN [response |-> Failure("Failed to delete API key", 0, FALSE),
          keys |-> keys]
    ELSE [response |-> Succeeded,
          keys |-> deleteProviderApiKey(keys, message.providerId)]

handleSetSelectedProvider(message, providerId, fault) ==
    IF fault # "none"
    THEN [response |-> Failure("Failed to set selected provider", 0, FALSE),
          selectedProvider |-> providerId]
    ELSE [response |-> Succeeded, selectedProvider |-> message.providerId]

\* The message the router is given: handleConnectionMessage copies the
\* fields that are truthy, so an empty oldName is not passed on.
actualMessage(message) ==
    [message EXCEPT
        !.oldName = IF @.given /\ @.name # EmptyText THEN @ ELSE Undefined]

\* handleMessage's switch over every action, with what the handler leaves
\* in storage
routeMessage(m, data, keys, providerId, http, http2, fault) ==
    LET stored(h) == Outcome(h.response, h.data, keys, providerId)
    IN  CASE m.action = "ping" -> Outcome(Succeeded, data, keys, providerId)
          [] m.action = "getPrompts" ->
                Outcome(handleGetPrompts(data, fault), data, keys, providerId)
          [] m.action = "getLabels" ->
                Outcome(handleGetLabels(data, fault), data, keys, providerId)
          [] m.action = "savePrompt" -> stored(handleSavePrompt(m, data, fault))
          [] m.action = "deletePrompt" ->
                stored(handleDeletePrompt(m, data, fault))
          [] m.action = "saveLabel" -> stored(handleSaveLabel(m, data, fault))
          [] m.action = "deleteLabel" ->
                stored(handleDeleteLabel(m, data, fault))
          [] m.action = "refinePrompt" ->
                stored(handleRefinePrompt(m, data, keys, providerId, http,
                                          http2, fault))
          [] m.action = "getSettings" ->
                Outcome(Succeeded, data, keys, providerId)
          [] m.action = "setProviderApiKey" ->
                LET h == handleSetProviderApiKey(m, keys, fault)
                IN  Outcome(h.response, data, h.keys, providerId)
          [] m.action = "deleteProviderApiKey" ->
                LET h == handleDeleteProviderApiKey(m, keys, fault)
                IN  Outcome(h.response, data, h.keys, providerId)
          [] m.action = "setSelectedProvider" ->
                LET h == handleSetSelectedProvider(m, providerId, fault)
                IN  Outcome(h.response, data, keys, h.selectedProvider)
          [] OTHER ->
                Outcome(handleMessage(m, keys, providerId, http), data, keys,
                        providerId)

\* handleConnectionMessage up to its post: the rebuilt message routed by
\* handleMessage's switch
handleConnectionMessage(message, data, keys, providerId, http, http2, fault) ==
    routeMessage(actualMessage(message), data, keys, providerId, http, http2,
                 fault)

\* posting only what succeeded
PostingSuccessOnly(response) ==
    IF response.success THEN <<response>> ELSE << >>

\* port.postMessage({ messageId, ...responseObj }): what the handling of
\* one message posts on its port
Posting(response) == <<response>>

----------------------------------------------------------------------------
(* The editor and the chat *)

NoKeys == [p \in {} |-> "k1"]

NoMessage ==
    [action |-> None, promptContent |-> EmptyText, historyKind |-> "missing",
     conversationHistory |-> << >>]

NoResponse == Failure(None, 0, FALSE)

NoCompletion ==
    [called |-> FALSE, provider |-> None,
     http |-> [status |-> 0, present |-> FALSE, text |-> EmptyText],
     result |-> Thrown(None, None, 0)]

BackendIdle ==
    /\ lastMessage = NoMessage
    /\ lastResponse = NoResponse
    /\ lastCompletion = NoCompletion
    /\ hasProvider = "null"

EditorIdle ==
    /\ editorOpen = FALSE
    /\ editorId = 0
    /\ content = EmptyText
    /\ originalContentBeforeRefinement = EmptyText
    /\ showClarification = FALSE
    /\ session = 0
    /\ conversation = << >>
    /\ isLoading = FALSE
    /\ currentQuestionIndex = 0
    /\ questions = << >>
    /\ isGeneratingQuestions = FALSE
    /\ error = NoError
    /\ inflight = {}
    /\ lastPosted = NothingPosted
    /\ timers = {}
    /\ asked = -1
    /\ sends = 0
    /\ defers = 0
    /\ finalRequests = 0
    /\ sessionLog = [s \in 1..MaxSessions |-> NewLog]

NoWire == [built |-> FALSE, provider |-> None, messages |-> << >>,
           body |-> [messages |-> << >>, system |-> NoSystem]]

WireIdle == lastWire = NoWire

MoreIdle == StoreIdle /\ PortIdle /\ WireIdle

----------------------------------------------------------------------------
(* The background, the credential store and the shell's provider check *)

\* messages the side panel sends to the two refinement actions
BackendMessages ==
    [action : {"generateClarifyingQuestions", "generateFinalRefinedPrompt"},
     promptContent : { <<"a">>, <<" ">> },
     historyKind : HistoryKind,
     conversationHistory : { << >> }]

\* provider outcomes: a success status with the text field present (a
\* question list, a refined text, whitespace) or missing, and every failure
\* status
BackendHttp ==
    [status : {200}, present : {TRUE},
     text : {ClarifyOutput(MaxProposed), <<" ", "b">>, <<" ">>, EmptyText}]
    \cup [status : HttpStatus, present : {FALSE}, text : {EmptyText}]

\* handleSetProviderApiKey
SetProviderApiKey(providerId, apiKey) ==
    /\ providerApiKeys' = setProviderApiKey(providerApiKeys, providerId, apiKey)
    /\ UNCHANGED <<selectedProvider, backendVars, shellVars, moreVars, editorVars,
                   chatVars, asyncVars, countVars>>

\* handleDeleteProviderApiKey
DeleteProviderApiKey(providerId) ==
    /\ providerApiKeys' = deleteProviderApiKey(providerApiKeys, providerId)
    /\ UNCHANGED <<selectedProvider, backendVars, shellVars, moreVars, editorVars,
                   chatVars, asyncVars, countVars>>

\* handleSetSelectedProvider
SetSelectedProvider(providerId) ==
    /\ selectedProvider' = providerId
    /\ UNCHANGED <<providerApiKeys, backendVars, shellVars, moreVars, editorVars,
                   chatVars, asyncVars, countVars>>

\* the chat client call a handler makes, if it gets that far
CompletionOf(response, keys, providerId, http) ==
    IF response.fetched
    THEN [called |-> TRUE, provider |-> providerId, http |-> http,
          result |-> chatCompletion(getProvider(providerId),
                                    getProviderApiKey(keys, providerId),
                                    << >>, http)]
    ELSE NoCompletion

\* the router handles one refinement message
HandleMessage(message, http) ==
    /\ lastMessage' = message
    /\ lastResponse' = handleMessage(message, providerApiKeys,
                                     selectedProvider, http)
    /\ lastCompletion' = CompletionOf(lastResponse', providerApiKeys,
                                      selectedProvider, http)
    /\ UNCHANGED <<credVars, shellVars, moreVars, editorVars, chatVars, asyncVars,
                   countVars>>

\* loadInitialData / checkProvider: getSettings, then setHasProvider
CheckProvider ==
    /\ hasProvider' =
          IF ProviderConfigured(handleGetSettings(providerApiKeys,
                                                  selectedProvider))
          THEN "true" ELSE "false"
    /\ UNCHANGED <<credVars, backendVars, editorVars, chatVars, asyncVars,
                   countVars, moreVars>>

InitBackend ==
    /\ selectedProvider = None
    /\ providerApiKeys = NoKeys
    /\ BackendIdle
    /\ EditorIdle
    /\ MoreIdle
    /\ savedPrompt \in StoredPrompts

NextBackend ==
    \/ \E p \in ProviderId, k \in ApiKey : SetProviderApiKey(p, k)
    \/ \E p \in ProviderId : DeleteProviderApiKey(p)
    \/ \E p \in ProviderId : SetSelectedProvider(p)
    \/ \E m \in BackendMessages, http \in BackendHttp : HandleMessage(m, http)
    \/ CheckProvider

SpecBackend == InitBackend /\ [][NextBackend]_vars

----------------------------------------------------------------------------
(* The editor and the chat: one run *)

Init ==
    /\ selectedProvider = "openai"
    /\ providerApiKeys = setProviderApiKey(NoKeys, "openai", "k1")
    /\ BackendIdle
    /\ EditorIdle
    /\ MoreIdle
    /\ savedPrompt \in StoredPrompts

Next ==
    \/ SelectPrompt
    \/ \E c \in ContentInputs : EditContent(c)
    \/ Save
    \/ CancelEdit
    \/ HandleRefine
    \/ \E req \in inflight, settle \in Settle, http \in ClarifyHttp :
          GenerateQuestionsResponse(req, settle, http)
    \/ \E req \in inflight, settle \in Settle, http \in RefineHttp :
          FastPathResponse(req, settle, http)
    \/ \E input \in AnswerInputs : HandleSend(input)
    \/ \E t \in timers : NextQuestionTimer(t)
    \/ HandleAnswerLater
    \/ \E req \in inflight, settle \in Settle, http \in RefineHttp :
          FinalResponse(req, settle, http)
    \/ UserCancel

Spec == Init /\ [][Next]_vars

----------------------------------------------------------------------------
(* The editor and the chat with fewer chat instances per run *)

HandleRefineAlone == MountChat(MaxAlone)

NextSession ==
    \/ SelectPrompt
    \/ \E c \in ContentInputs : EditContent(c)
    \/ Save
    \/ CancelEdit
    \/ HandleRefineAlone
    \/ \E req \in inflight, settle \in Settle, http \in ClarifyHttp :
          GenerateQuestionsResponse(req, settle, http)
    \/ \E req \in inflight, settle \in Settle, http \in RefineHttp :
          FastPathResponse(req, settle, http)
    \/ \E input \in AnswerInputs : HandleSend(input)
    \/ \E t \in timers : NextQuestionTimer(t)
    \/ HandleAnswerLater
    \/ \E req \in inflight, settle \in Settle, http \in RefineHttp :
          FinalResponse(req, settle, http)
    \/ UserCancel

SpecSession == Init /\ [][NextSession]_vars

----------------------------------------------------------------------------
(* The chat when the user defers every question and every request is       *)
(* answered successfully                                                   *)

ClarifyOk == {http \in ClarifyHttp : ResponseOk(http)}
RefineOk == {http \in RefineHttp : ResponseOk(http) /\ http.present}

QuestionsArrive ==
    \E req \in inflight, http \in ClarifyOk :
        GenerateQuestionsResponse(req, "response", http)

FastPathSucceeds ==
    \E req \in inflight, http \in RefineOk :
        FastPathResponse(req, "response", http)

FinalSucceeds ==
    \E req \in inflight, http \in RefineOk :
        FinalResponse(req, "response", http)

NextDefer ==
    \/ SelectPrompt
    \/ \E c \in ContentInputs : EditContent(c)
    \/ HandleRefine
    \/ QuestionsArrive
    \/ FastPathSucceeds
    \/ HandleAnswerLater
    \/ FinalSucceeds

\* Responses arrive, and the user presses "Answer later" whenever it is shown.
SpecDefer ==
    /\ Init
    /\ [][NextDefer]_vars
    /\ WF_vars(QuestionsArrive)
    /\ WF_vars(FastPathSucceeds)
    /\ WF_vars(HandleAnswerLater)
    /\ WF_vars(FinalSucceeds)

----------------------------------------------------------------------------
(* Prompt and label storage: calls made one after another *)

InitStore ==
    /\ selectedProvider = None
    /\ providerApiKeys = NoKeys
    /\ BackendIdle
    /\ EditorIdle
    /\ MoreIdle
    /\ savedPrompt \in StoredPrompts

NextStore ==
    \/ \E p \in PromptInputs, fault \in BOOLEAN :
          /\ SavePrompt(p, fault)
          /\ UNCHANGED <<credVars, backendVars, shellVars, editorVars,
                         chatVars, asyncVars, countVars, portVars, wireVars>>
    \/ \E n \in PromptNames, fault \in BOOLEAN :
          /\ DeletePrompt(n, fault)
          /\ UNCHANGED <<credVars, backendVars, shellVars, editorVars,
                         chatVars, asyncVars, countVars, portVars, wireVars>>
    \/ \E l \in LabelInputs, o \in OldNames, fault \in BOOLEAN :
          /\ SaveLabel(l, o, fault)
          /\ UNCHANGED <<credVars, backendVars, shellVars, editorVars,
                         chatVars, asyncVars, countVars, portVars, wireVars>>
    \/ \E n \in LabelNames, fault \in BOOLEAN :
          /\ DeleteLabel(n, fault)
          /\ UNCHANGED <<credVars, backendVars, shellVars, editorVars,
                         chatVars, asyncVars, countVars, portVars, wireVars>>

SpecStore == InitStore /\ [][NextStore]_vars

----------------------------------------------------------------------------
(* The chat client building one request body after another *)

ChatMessages == [role : {"system", "user", "assistant"},
                 content : { <<"a">>, <<"b">> }]

RECURSIVE MessageLists(_)
MessageLists(n) ==
    IF n = 0 THEN { << >> }
    ELSE LET shorter == MessageLists(n - 1)
         IN  shorter \cup
             { Append(l, m) : l \in { s \in shorter : Len(s) = n - 1 },
                              m \in ChatMessages }

BuildBody(provider, messages) ==
    /\ lastWire' = [built |-> TRUE, provider |-> provider,
                    messages |-> messages,
                    body |-> requestBody(provider, messages)]
    /\ UNCHANGED <<credVars, backendVars, shellVars, editorVars, chatVars,
                   asyncVars, countVars, storeVars, portVars>>

InitWire ==
    /\ selectedProvider = None
    /\ providerApiKeys = NoKeys
    /\ BackendIdle
    /\ EditorIdle
    /\ MoreIdle
    /\ savedPrompt \in StoredPrompts

NextWire ==
    \E provider \in ProviderId, messages \in MessageLists(MaxMessages) :
        BuildBody(provider, messages)

SpecWire == InitWire /\ [][NextWire]_vars

----------------------------------------------------------------------------
(* The persistent connection between the side panel and the background    *)
(* (SidePanelShell.tsx, background.ts)                                     *)

Msg(action) ==
    [action |-> action, promptContent |-> EmptyText,
     historyKind |-> "missing", conversationHistory |-> << >>,
     prompt |-> NoPrompt, label |-> NoLabel, oldName |-> Undefined,
     name |-> EmptyText, providerId |-> None, apiKey |-> None]

PromptX ==
    [name |-> <<"x">>, content |-> <<"a">>, labels |-> << <<"p">> >>,
     originalContent |-> EmptyText]
LabelP == [name |-> <<"p">>, context |-> <<"c">>]
LabelQ == [name |-> <<"q">>, context |-> <<"c">>]

\* messages the side panel sends
PortMessages ==
    { Msg("ping"), Msg("getPrompts"), Msg("getLabels"), Msg("getSettings"),
      Msg("bogus"),
      [Msg("savePrompt") EXCEPT !.prompt = PromptX],
      [Msg("savePrompt") EXCEPT !.prompt = [PromptX EXCEPT !.name = <<" ">>]],
      [Msg("deletePrompt") EXCEPT !.name = <<"x">>],
      [Msg("saveLabel") EXCEPT !.label = LabelP],
      [Msg("saveLabel") EXCEPT !.label = LabelQ, !.oldName = Given(<<"p">>)],
      [Msg("saveLabel") EXCEPT !.label = LabelQ, !.oldName = Given(EmptyText)],
      [Msg("deleteLabel") EXCEPT !.name = <<"p">>],
      [Msg("refinePrompt") EXCEPT !.name = <<"x">>],
      [Msg("generateClarifyingQuestions") EXCEPT !.promptContent = <<"a">>],
      [Msg("generateFinalRefinedPrompt") EXCEPT
          !.promptContent = <<"a">>, !.historyKind = "array"],
      [Msg("setProviderApiKey") EXCEPT
          !.providerId = "openai", !.apiKey = "k1"],
      [Msg("deleteProviderApiKey") EXCEPT !.providerId = "openai"],
      [Msg("setSelectedProvider") EXCEPT !.providerId = "openai"] }

\* provider outcomes: no question, questions or a refined text, a failure
PortHttp ==
    { [status |-> 200, present |-> TRUE, text |-> ClarifyOutput(0)],
      [status |-> 200, present |-> TRUE, text |-> <<"b", "q1">>],
      [status |-> 500, present |-> FALSE, text |-> EmptyText] }

llmActions ==
    {"generateClarifyingQuestions", "generateFinalRefinedPrompt",
     "refinePrompt"}

\* the provider outcomes that matter to the handler of request id: only the
\* handlers of llmActions call a provider
PortHttpOf(id) ==
    IF port[id].message.action \in llmActions THEN PortHttp
    ELSE {[status |-> 500, present |-> FALSE, text |-> EmptyText]}

\* what handleRefineInEditor gives the editor: the refined text, or an error
\* of class kind with a message
NoResult == [kind |-> None, message |-> None, refinedText |-> EmptyText]
RefineThrown(kind, message) == [NoResult EXCEPT !.kind = kind, !.message = message]
RefineReturned(text) == [NoResult EXCEPT !.kind = "return", !.refinedText = text]

\* response.question as the shell reads it: the responses of the background
\* carry the list under the key questions and have no key question
questionOf(response) == Undefined

\* handleRefineInEditor of the shell, from the settling of its refinePrompt
\* request onwards; rejection is the message of a rejected promise, or None
handleRefineInEditor(name, rejection, response) ==
    IF IsBlank(name)
    THEN RefineThrown("Error", "Please save the prompt first")
    ELSE IF rejection # None
    THEN RefineThrown("Error", rejection)
    ELSE IF ~response.success
    THEN RefineThrown("Error",
                      ErrorOf(response, [text |-> "Failed to refine prompt",
                                         status |-> 0]).text)
    ELSE IF response.hasQuestions /\ questionOf(response).given
    THEN RefineThrown("ClarificationNeededError", "Clarification needed")
    ELSE IF ~Truthy(response.refinedText)
    THEN RefineThrown("Error", "No refined text returned")
    ELSE RefineReturned(response.refinedText)

\* what the caller of a request gets once its promise has settled
CallerResult(message, rejection, response) ==
    IF message.action = "refinePrompt"
    THEN handleRefineInEditor(message.name, rejection, response)
    ELSE NoResult

\* what a handler found in storage when it read it
Snapshot ==
    [data |-> Data, keys |-> providerApiKeys,
     selectedProvider |-> selectedProvider]

NoSnapshot ==
    [data |-> [prompts |-> << >>, labels |-> << >>], keys |-> NoKeys,
     selectedProvider |-> None]

\* One request of sendMessageToBackground: its message, where it is
\* ("sent": posted to the background; "read": its handler has read storage;
\* "handled": the handler has finished; "received": its response has reached
\* the side panel's listener; "failed": postMessage threw), what the handler
\* read, what was posted back, what became of the caller's promise, whether
\* the handler changed anything in storage, and whether the port it was sent
\* on is still connected.
Entry(message) ==
    [message |-> message, stage |-> "sent", posted |-> << >>,
     outcome |-> "pending", committed |-> FALSE, connected |-> TRUE,
     caller |-> NoResult, snapshot |-> NoSnapshot]

\* an initializeConnection that opens a port whether or not there is one
initializeConnectionAgain(c, ok) ==
    IF ok
    THEN [c EXCEPT !.backgroundPort = TRUE, !.open = @ + 1, !.threw = FALSE]
    ELSE [c EXCEPT !.threw = TRUE]

\* initializeConnection; ok: chrome.runtime.connect returns a port (it
\* throws otherwise, which is caught and logged)
initializeConnection(c, ok) ==
    IF c.backgroundPort THEN c
    ELSE IF ok
    THEN [c EXCEPT !.backgroundPort = TRUE, !.open = @ + 1, !.threw = FALSE]
    ELSE [c EXCEPT !.threw = TRUE]

\* calls of sendMessageToBackground made so far
Calls == messageIdCounter + Len(connection.waiting) + Len(connection.fallback)

\* the effect of the shell's mount: initializeConnection()
Mount(ok) ==
    /\ ~connection.mounted
    /\ connection' = [initializeConnection(connection, ok) EXCEPT
                         !.mounted = TRUE]
    /\ UNCHANGED <<credVars, backendVars, shellVars, editorVars, chatVars,
                   asyncVars, countVars, storeVars, messageIdCounter,
                   pendingMessages, port, wireVars>>

\* a promise is settled by an event only while it is pending
SettledByAny(id, how, current) == how

\* the outcome of request id after an event that settles pending promises
SettledBy(id, how, current) ==
    IF id \in pendingMessages THEN how ELSE current

\* the part of sendMessageToBackground that uses the connection: a new
\* messageId, the timeout, the entry in pendingMessages, postMessage;
\* posts: postMessage does not throw
PostMessage(message, posts) ==
    /\ messageIdCounter' = messageIdCounter + 1
    /\ IF posts
       THEN /\ pendingMessages' = pendingMessages \cup {messageIdCounter'}
            /\ port' = Append(port, Entry(message))
       ELSE /\ pendingMessages' = pendingMessages
            /\ port' = Append(port,
                   [Entry(message) EXCEPT
                       !.stage = "failed", !.outcome = "sendFailed",
                       !.caller = CallerResult(message,
                                      "Failed to send message", NoResponse)])

\* sendMessageToBackground while backgroundPort is set
Send(message, limit, posts) ==
    /\ Calls < limit
    /\ connection.backgroundPort
    /\ PostMessage(message, posts)
    /\ UNCHANGED <<credVars, backendVars, shellVars, editorVars, chatVars,
                   asyncVars, countVars, storeVars, connection, wireVars>>

\* sendMessageToBackground while backgroundPort is null: it calls
\* initializeConnection and waits 50 ms
SendUnconnected(message, limit, ok) ==
    /\ Calls < limit
    /\ ~connection.backgroundPort
    /\ connection' = [initializeConnection(connection, ok) EXCEPT
                         !.waiting = Append(@, message)]
    /\ UNCHANGED <<credVars, backendVars, shellVars, editorVars, chatVars,
                   asyncVars, countVars, storeVars, messageIdCounter,
                   pendingMessages, port, wireVars>>

\* sendMessageToBackground after its 50 ms wait: over the connection when
\* there is one, with chrome.runtime.sendMessage otherwise
AfterWait(posts) ==
    /\ connection.waiting # << >>
    /\ LET message == Head(connection.waiting)
       IN  IF connection.backgroundPort
           THEN /\ PostMessage(message, posts)
                /\ connection' = [connection EXCEPT !.waiting = Tail(@)]
           ELSE /\ connection' = [connection EXCEPT
                       !.waiting = Tail(@),
                       !.fallback = Append(@, [message |-> message,
                                               handled |-> FALSE])]
                /\ UNCHANGED <<messageIdCounter, pendingMessages, port>>
    /\ UNCHANGED <<credVars, backendVars, shellVars, editorVars, chatVars,
                   asyncVars, countVars, storeVars, wireVars>>

\* the storage call of the handler returned, so the handler wrote the lists
\* it had read and changed (a delete writes only when it removed something)
WritesData(m, before, o, fault) ==
    CASE m.action \in {"savePrompt", "saveLabel"} -> o.response = Reread(fault)
      [] m.action \in {"deletePrompt", "deleteLabel"} ->
            o.response = Reread(fault) /\ o.data # before
      [] OTHER -> o.data # before

\* the handler wrote the key map it had read and changed
WritesKeys(m, o) ==
    /\ m.action \in {"setProviderApiKey", "deleteProviderApiKey"}
    /\ o.response.success

\* what the handler of message m leaves in storage when it works on what it
\* read (snap) and writes into what storage holds by then
Stored(m, snap, o, fault) ==
    [data |-> IF WritesData(m, snap.data, o, fault) THEN o.data ELSE Data,
     keys |-> IF WritesKeys(m, o) THEN o.keys ELSE providerApiKeys,
     selectedProvider |->
         IF m.action = "setSelectedProvider" /\ o.response.success
         THEN o.selectedProvider ELSE selectedProvider]

\* the handler of request id works on snap and finishes
FinishHandling(id, snap, http, http2, fault) ==
    LET m == actualMessage(port[id].message)
        o == handleConnectionMessage(port[id].message, snap.data, snap.keys,
                                     snap.selectedProvider, http, http2,
                                     fault)
        s == Stored(m, snap, o, fault)
    IN  /\ prompts' = s.data.prompts
        /\ labels' = s.data.labels
        /\ providerApiKeys' = s.keys
        /\ selectedProvider' = s.selectedProvider
        /\ port' = [port EXCEPT
               ![id].stage = "handled",
               ![id].posted = IF port[id].connected
                              THEN Posting(o.response) ELSE << >>,
               ![id].committed = s # Snapshot]
        /\ UNCHANGED <<backendVars, shellVars, editorVars, chatVars,
                       asyncVars, countVars, lastCall, messageIdCounter,
                       pendingMessages, connection, wireVars>>

\* the background handles the message of request id with no other handler
\* running in between; the handler is not told about the caller's timeout,
\* and its post fails on a closed port
HandleConnectionMessage(id, http, http2, fault) ==
    /\ id \in 1..Len(port)
    /\ port[id].stage = "sent"
    /\ FinishHandling(id, Snapshot, http, http2, fault)

\* the handler of request id reads storage (await storage.get) and yields
ReadStorage(id) ==
    /\ id \in 1..Len(port)
    /\ port[id].stage = "sent"
    /\ port' = [port EXCEPT ![id].stage = "read", ![id].snapshot = Snapshot]
    /\ UNCHANGED <<credVars, backendVars, shellVars, editorVars, chatVars,
                   asyncVars, countVars, storeVars, messageIdCounter,
                   pendingMessages, connection, wireVars>>

\* the handler of request id goes on with what it read earlier
WriteBack(id, http, http2, fault) ==
    /\ id \in 1..Len(port)
    /\ port[id].stage = "read"
    /\ FinishHandling(id, port[id].snapshot, http, http2, fault)

\* the background handles a message sent with chrome.runtime.sendMessage
HandleFallback(k, http, http2, fault) ==
    /\ k \in 1..Len(connection.fallback)
    /\ ~connection.fallback[k].handled
    /\ LET message == connection.fallback[k].message
           o == routeMessage(message, Data, providerApiKeys,
                             selectedProvider, http, http2, fault)
           s == Stored(message, Snapshot, o, fault)
       IN  /\ prompts' = s.data.prompts
           /\ labels' = s.data.labels
           /\ providerApiKeys' = s.keys
           /\ selectedProvider' = s.selectedProvider
    /\ connection' = [connection EXCEPT !.fallback[k].handled = TRUE]
    /\ UNCHANGED <<backendVars, shellVars, editorVars, chatVars, asyncVars,
                   countVars, lastCall, messageIdCounter, pendingMessages,
                   port, wireVars>>

\* backgroundPort.onMessage: resolve the pending promise, if there is one
ReceiveResponse(id) ==
    /\ id \in 1..Len(port)
    /\ port[id].stage = "handled"
    /\ port[id].connected
    /\ Len(port[id].posted) > 0
    /\ port' = [port EXCEPT
           ![id].stage = "received",
           ![id].outcome = SettledBy(id, "resolved", @),
           ![id].caller = IF id \in pendingMessages
                          THEN CallerResult(port[id].message, None,
                                            port[id].posted[1])
                          ELSE @]
    /\ pendingMessages' = pendingMessages \ {id}
    /\ UNCHANGED <<credVars, backendVars, shellVars, editorVars, chatVars,
                   asyncVars, countVars, storeVars, messageIdCounter,
                   connection, wireVars>>

\* the timer of request id fires (after 60 s for the actions of llmActions,
\* 10 s for the others): the promise is rejected with "Message timeout"
Timeout(id) ==
    /\ id \in pendingMessages
    /\ pendingMessages' = pendingMessages \ {id}
    /\ port' = [port EXCEPT
           ![id].outcome = "timeout",
           ![id].caller = CallerResult(port[id].message, "Message timeout",
                                       NoResponse)]
    /\ UNCHANGED <<credVars, backendVars, shellVars, editorVars, chatVars,
                   asyncVars, countVars, storeVars, messageIdCounter,
                   connection, wireVars>>

\* backgroundPort.onDisconnect: backgroundPort is cleared, every pending
\* promise is rejected with "Service worker connection closed" and its timer
\* cleared, and a reconnection is scheduled 100 ms later
Disconnect ==
    /\ connection.open > 0
    /\ connection.timers < MaxReconnectTimers
    /\ connection' = [connection EXCEPT
           !.backgroundPort = FALSE, !.open = @ - 1, !.timers = @ + 1]
    /\ pendingMessages' = {}
    /\ port' = [id \in 1..Len(port) |->
                   [port[id] EXCEPT
                       !.connected = FALSE,
                       !.outcome = SettledBy(id, "closed", @),
                       !.caller =
                           IF id \in pendingMessages
                           THEN CallerResult(port[id].message,
                                    "Service worker connection closed",
                                    NoResponse)
                           ELSE @]]
    /\ UNCHANGED <<credVars, backendVars, shellVars, editorVars, chatVars,
                   asyncVars, countVars, storeVars, messageIdCounter,
                   wireVars>>

\* the reconnection timer fires: if (!backgroundPort) initializeConnection()
ReconnectTimer(ok) ==
    /\ connection.timers > 0
    /\ connection' = [initializeConnection(connection, ok) EXCEPT
                         !.timers = connection.timers - 1]
    /\ UNCHANGED <<credVars, backendVars, shellVars, editorVars, chatVars,
                   asyncVars, countVars, storeVars, messageIdCounter,
                   pendingMessages, port, wireVars>>

\* the side panel is mounted and its connection is open
Connected ==
    [NoConnection EXCEPT !.backgroundPort = TRUE, !.open = 1,
                         !.mounted = TRUE]

\* storage holds what earlier requests have stored: one prompt, its label,
\* and the key of the selected provider
InitPort ==
    /\ selectedProvider = "openai"
    /\ providerApiKeys = setProviderApiKey(NoKeys, "openai", "k1")
    /\ prompts = <<PromptX>>
    /\ labels = <<LabelP>>
    /\ lastCall = NoCall
    /\ messageIdCounter = 0
    /\ pendingMessages = {}
    /\ port = << >>
    /\ connection = Connected
    /\ WireIdle
    /\ BackendIdle
    /\ EditorIdle
    /\ savedPrompt \in StoredPrompts

\* The side panel sends while it is connected, and the background finishes
\* one message before it takes up the next.
NextPort ==
    \/ \E m \in PortMessages : Send(m, MaxRequests, TRUE)
    \/ \E id \in 1..Len(port), fault \in Fault :
          \E http \in PortHttpOf(id), http2 \in PortHttpOf(id) :
              HandleConnectionMessage(id, http, http2, fault)
    \/ \E id \in 1..MaxRequests : ReceiveResponse(id)
    \/ \E id \in 1..MaxRequests : Timeout(id)
    \/ Disconnect
    \/ ReconnectTimer(TRUE)

SpecPort == InitPort /\ [][NextPort]_vars

----------------------------------------------------------------------------
(* The connection of the side panel: mount, sends with and without a port,  *)
(* disconnects and reconnection                                              *)

ConnectionMessages == { Msg("getPrompts") }

InitConnection ==
    /\ selectedProvider = "openai"
    /\ providerApiKeys = setProviderApiKey(NoKeys, "openai", "k1")
    /\ prompts = <<PromptX>>
    /\ labels = <<LabelP>>
    /\ lastCall = NoCall
    /\ PortIdle
    /\ WireIdle
    /\ BackendIdle
    /\ EditorIdle
    /\ savedPrompt \in StoredPrompts

HandleOnPort ==
    \E id \in 1..Len(port) :
        \E http \in PortHttpOf(id) :
            HandleConnectionMessage(id, http, http, "none")

HandleOffPort ==
    \E k \in 1..Len(connection.fallback) :
        HandleFallback(k, CHOOSE http \in PortHttp : http.status = 200,
                       CHOOSE http \in PortHttp : http.status = 200, "none")

WaitOver == \E posts \in BOOLEAN : AfterWait(posts)

Reconnect == \E ok \in BOOLEAN : ReconnectTimer(ok)

NextConnection ==
    \/ \E ok \in BOOLEAN : Mount(ok)
    \/ \E m \in ConnectionMessages, posts \in BOOLEAN :
          Send(m, MaxConcurrent, posts)
    \/ \E m \in ConnectionMessages, ok \in BOOLEAN :
          SendUnconnected(m, MaxConcurrent, ok)
    \/ WaitOver
    \/ HandleOnPort
    \/ HandleOffPort
    \/ \E id \in 1..MaxConcurrent : ReceiveResponse(id)
    \/ \E id \in 1..MaxConcurrent : Timeout(id)
    \/ Disconnect
    \/ Reconnect

\* Timers fire: the timeout of a pending request, the 50 ms wait of a send
\* and the 100 ms reconnection delay.
SpecConnection ==
    /\ InitConnection
    /\ [][NextConnection]_vars
    /\ \A id \in 1..MaxConcurrent : WF_vars(Timeout(id))
    /\ WF_vars(WaitOver)
    /\ WF_vars(Reconnect)

----------------------------------------------------------------------------
(* The background working on two messages at a time: a handler reads        *)
(* storage, yields, and writes what it read and changed                      *)

PromptY ==
    [name |-> <<"y">>, content |-> <<"a">>, labels |-> << >>,
     originalContent |-> EmptyText]

RaceMessages ==
    { [Msg("setProviderApiKey") EXCEPT
          !.providerId = "anthropic", !.apiKey = "k1"],
      [Msg("setProviderApiKey") EXCEPT
          !.providerId = "google", !.apiKey = "k1"],
      [Msg("deleteProviderApiKey") EXCEPT !.providerId = "google"],
      [Msg("savePrompt") EXCEPT !.prompt = PromptY],
      [Msg("deletePrompt") EXCEPT !.name = <<"x">>],
      [Msg("saveLabel") EXCEPT !.label = LabelQ] }

NextRace ==
    \/ \E m \in RaceMessages : Send(m, MaxConcurrent, TRUE)
    \/ \E id \in 1..Len(port) : ReadStorage(id)
    \/ \E id \in 1..Len(port) :
          \E http \in PortHttpOf(id) : WriteBack(id, http, http, "none")
    \/ \E id \in 1..MaxConcurrent : ReceiveResponse(id)

SpecRace == InitPort /\ [][NextRace]_vars

----------------------------------------------------------------------------
(* Properties *)

AssistantTurns(h) == SelectSeq(h, LAMBDA m : m.role = "assistant")

\* one assistant turn per question, in question order, and every user turn
\* directly after an assistant turn
TranscriptWellFormed(h, qs) ==
    /\ [i \in 1..Len(AssistantTurns(h)) |-> AssistantTurns(h)[i].content] = qs
    /\ \A i \in 1..Len(h) :
          h[i].role = "user" => (i > 1 /\ h[i - 1].role = "assistant")

FinalPosted ==
    /\ lastPosted.action = "generateFinalRefinedPrompt"
    /\ Mounted(lastPosted.session)

\* C1: every transcript the mounted chat passes to generateFinalRefinedPrompt
\* has exactly one assistant turn per question asked, in question order, each
\* followed by at most one user turn - also after a failed final request.
C1_TranscriptWellFormed ==
    FinalPosted =>
        TranscriptWellFormed(lastPosted.conversationHistory, questions)

\* C2: when every question is deferred and the requests succeed, the final
\* request goes out after exactly as many "answer later" actions as there
\* are questions, and the chat instance reaches onComplete.
C2_DeferAllCompletes ==
    /\ [](\A r \in inflight :
            r.kind = "final" => (sends = 0 /\ asked >= 1 /\ defers = asked))
    /\ \A s \in 1..MaxSessions :
          (session = s /\ showClarification /\ asked >= 1)
              ~> (sessionLog[s].onComplete = 1)

C2_Witness ==
    /\ asked = MaxQuestions /\ defers = MaxQuestions /\ sends = 0
    /\ \E r \in inflight : r.kind = "final" /\ Mounted(r.session)

\* C3: when the question request returns zero questions, the final request is
\* sent at once with an empty conversationHistory; while it is pending the
\* conversation stays empty and no answer or deferral is accepted; and its
\* success calls onComplete with the refined text.
C3_ZeroQuestionsFastPath ==
    /\ [][\A req \in inflight :
            (req.kind = "questions" /\ req \notin inflight')
            => \A http \in ClarifyHttp :
                  (/\ Settled(req, "response", http).success
                   /\ Len(Settled(req, "response", http).questions) = 0
                   /\ GenerateQuestionsResponse(req, "response", http))
                  => /\ \E f \in inflight' :
                           f.kind = "fast" /\ f.session = req.session
                     /\ lastPosted'.action = "generateFinalRefinedPrompt"
                     /\ lastPosted'.session = req.session
                     /\ lastPosted'.conversationHistory = << >>]_vars
    /\ [](\A f \in inflight :
            (f.kind = "fast" /\ Mounted(f.session))
            => (conversation = << >> /\ sends = 0 /\ defers = 0
                /\ isGeneratingQuestions))
    /\ [][\A req \in inflight :
            (req.kind = "fast" /\ req \notin inflight')
            => \A http \in RefineHttp :
                  (/\ Settled(req, "response", http).success
                   /\ FastPathResponse(req, "response", http))
                  => /\ sessionLog'[req.session].onComplete =
                           sessionLog[req.session].onComplete + 1
                     /\ EditorLive(req) =>
                           (content' = Trim(http.text)
                            /\ ~showClarification')]_vars

C3_Witness ==
    /\ asked = 0 /\ showClarification
    /\ \E f \in inflight : f.kind = "fast" /\ f.session = session

\* the questions a provider response proposes, in order
Proposed(completion) == ParseQuestions(completion.result.content)

ClarifyAnswered ==
    /\ lastMessage.action = "generateClarifyingQuestions"
    /\ lastResponse.success

\* C4: generateClarifyingQuestions never returns more than 3 questions; when
\* the model proposes more, the first 3 are kept in their order.
C4_AtMostThreeQuestions ==
    ClarifyAnswered =>
        /\ Len(lastResponse.questions) <= 3
        /\ lastResponse.questions =
              [i \in 1..(IF Len(Proposed(lastCompletion)) > 3 THEN 3
                         ELSE Len(Proposed(lastCompletion))) |->
                  Proposed(lastCompletion)[i]]

C4_Witness ==
    /\ ClarifyAnswered
    /\ Len(Proposed(lastCompletion)) > 3
    /\ Len(lastResponse.questions) = 3

\* C5: a chat instance the user cancelled after a question was shown never
\* invokes onComplete afterwards.
C5_CancelledNeverCompletes ==
    [][\A s \in 1..MaxSessions :
          sessionLog[s].userCancel = "shown"
              => sessionLog'[s].onComplete = sessionLog[s].onComplete]_vars

\* C6: once a final request has failed and the error is shown, the chat
\* instance appends nothing to the conversation and sends no request.
C6_FailedIsTerminal ==
    [][(showClarification /\ error # NoError /\ showClarification')
          => (conversation' = conversation /\ inflight' \subseteq inflight)]_vars

\* C7: while an editor is open, a non-empty archived original content is
\* never changed.
C7_OriginalContentKept ==
    [][(editorOpen /\ editorOpen' /\ Truthy(originalContentBeforeRefinement))
          => originalContentBeforeRefinement' =
                originalContentBeforeRefinement]_vars

BackendHandled ==
    <<lastMessage, lastResponse, lastCompletion>>' #
        <<lastMessage, lastResponse, lastCompletion>>

ValidMessage(m) ==
    /\ ~IsBlank(m.promptContent)
    /\ m.action = "generateFinalRefinedPrompt" => m.historyKind = "array"

\* responses to m that report a provider failure
ProviderFailures(m) ==
    {handleMessage(m, setProviderApiKey(NoKeys, p, "k1"), p, http) :
        p \in ProviderId,
        http \in {h \in BackendHttp : ~ResponseOk(h) \/ ~h.present}}

\* C8: with a provider selected that has no stored key, both refinement
\* actions fail with the no-provider-configured error, which no provider
\* failure produces, and send no provider request.
C8_NoKeyNoProviderError ==
    [][(/\ BackendHandled
        /\ ValidMessage(lastMessage')
        /\ selectedProvider # None
        /\ selectedProvider \notin DOMAIN providerApiKeys)
       => /\ ~lastResponse'.success
          /\ lastResponse'.error.text = "No provider configured"
          /\ lastResponse' \notin ProviderFailures(lastMessage')
          /\ ~lastResponse'.fetched
          /\ ~lastCompletion'.called]_vars

C8_Witness ==
    /\ ValidMessage(lastMessage)
    /\ selectedProvider # None
    /\ selectedProvider \notin DOMAIN providerApiKeys
    /\ lastResponse.error.text = "No provider configured"

\* C9: the provider check never answers "configured" while the selected
\* provider has no entry in the stored key map.
C9_SelectedWithoutKeyUnconfigured ==
    [][(hasProvider' = "true" /\ hasProvider # "true")
          => selectedProvider \in DOMAIN providerApiKeys]_vars

ErrorKind(result) == result.name

AuthStatus == {401, 403}

\* C10: a 401 or 403 response makes the chat client fail with an error whose
\* kind differs from that of the error for any other non-success status.
C10_AuthErrorDistinct ==
    (lastCompletion.called /\ lastCompletion.http.status \in AuthStatus)
    => /\ lastCompletion.result.type = "throw"
       /\ \A st \in HttpStatus \ AuthStatus :
             ~ResponseOk([lastCompletion.http EXCEPT !.status = st])
             => ErrorKind(lastCompletion.result) #
                ErrorKind(chatCompletion(
                    getProvider(lastCompletion.provider), "k1", << >>,
                    [lastCompletion.http EXCEPT !.status = st]))


\* C11: for each provider, a successful response from which no non-empty
\* text can be extracted (field missing, empty or whitespace only) makes
\* chatCompletion throw, and chatCompletion never returns empty content.
C11_NoEmptyContent ==
    lastCompletion.called =>
        /\ ( /\ ResponseOk(lastCompletion.http)
             /\ \/ ~lastCompletion.http.present
                \/ IsBlank(lastCompletion.http.text) )
           => lastCompletion.result.type = "throw"
        /\ lastCompletion.result.type = "ok"
           => ~IsBlank(lastCompletion.result.content)

C11_Witness ==
    /\ lastCompletion.called
    /\ lastCompletion.provider = "google"
    /\ lastCompletion.http =
          [status |-> 200, present |-> TRUE, text |-> <<" ">>]
    /\ lastCompletion.result.type = "throw"

\* C12: the request body preserves the conversation of every message list:
\* the openai body carries every message inline in order; the anthropic and
\* google bodies carry exactly the non-system messages in order (assistant
\* stays assistant for anthropic and becomes model for google, every other
\* role becomes user) and carry the system content in the top-level field.
C12_WirePreservesConversation ==
    lastWire.built =>
        LET m == lastWire.messages
            b == lastWire.body
            ns == SelectSeq(m, LAMBDA x : x.role # "system")
            assistantRole ==
                IF lastWire.provider = "google" THEN "model" ELSE "assistant"
        IN  IF lastWire.provider = "openai"
            THEN b.messages = m
            ELSE /\ Len(b.messages) = Len(ns)
                 /\ \A i \in 1..Len(ns) :
                       /\ b.messages[i].content = ns[i].content
                       /\ b.messages[i].role =
                             IF ns[i].role = "assistant" THEN assistantRole
                             ELSE "user"
                 /\ \A i \in 1..Len(m) :
                       m[i].role = "system" =>
                           /\ b.system.given
                           /\ b.system.content = m[i].content

\* a saveLabel call that is a rename
IsRenameCall ==
    /\ lastCall.op = "saveLabel"
    /\ lastCall.oldName.given
    /\ lastCall.oldName.name # lastCall.label.name

\* position by position, everything of the prompts but their label lists
\* is what it was before the call
PromptsKeptApartFromLabels ==
    /\ Len(prompts) = Len(lastCall.before.prompts)
    /\ \A k \in 1..Len(prompts) :
          /\ prompts[k].name = lastCall.before.prompts[k].name
          /\ prompts[k].content = lastCall.before.prompts[k].content
          /\ prompts[k].originalContent =
                lastCall.before.prompts[k].originalContent

\* C17: a successful rename replaces oldName by the new name in the label
\* list of every prompt, leaves every other label name and every prompt
\* that did not reference oldName unchanged, and keeps the number of
\* prompts.
C17_RenameUpdatesPrompts ==
    (IsRenameCall /\ ~lastCall.threw) =>
        /\ PromptsKeptApartFromLabels
        /\ \A k \in 1..Len(prompts) :
              LET old == lastCall.before.prompts[k].labels
              IN  /\ Len(prompts[k].labels) = Len(old)
                  /\ \A i \in 1..Len(old) :
                        prompts[k].labels[i] =
                            IF old[i] = lastCall.oldName.name
                            THEN lastCall.label.name ELSE old[i]

C17_Witness ==
    /\ IsRenameCall
    /\ ~lastCall.threw
    /\ Len(lastCall.before.prompts) = 2
    /\ ~Includes(lastCall.before.prompts[1].labels, lastCall.oldName.name)
    /\ Includes(lastCall.before.prompts[2].labels, lastCall.oldName.name)
    /\ Includes(prompts[2].labels, lastCall.label.name)
    /\ Includes(prompts[2].labels, <<"z">>)

\* C18: a successful deleteLabel(name) removes the label and removes name
\* from every prompt's label list, so that no prompt references name any
\* more; no prompt is deleted and nothing else of a prompt or of another
\* label changes.
C18_DeleteLabelCleansPrompts ==
    (lastCall.op = "deleteLabel" /\ ~lastCall.threw) =>
        /\ \A i \in 1..Len(labels) : labels[i].name # lastCall.name
        /\ labels = SelectSeq(lastCall.before.labels,
                              LAMBDA l : l.name # lastCall.name)
        /\ PromptsKeptApartFromLabels
        /\ \A k \in 1..Len(prompts) :
              /\ ~Includes(prompts[k].labels, lastCall.name)
              /\ prompts[k].labels =
                    SelectSeq(lastCall.before.prompts[k].labels,
                              LAMBDA n : n # lastCall.name)

C18_Witness ==
    /\ lastCall.op = "deleteLabel"
    /\ ~lastCall.threw
    /\ \E i \in 1..Len(lastCall.before.labels) :
          lastCall.before.labels[i].name = lastCall.name
    /\ Len(labels) = 1
    /\ \E k \in 1..Len(prompts) :
          /\ Includes(lastCall.before.prompts[k].labels, lastCall.name)
          /\ prompts[k].labels = << <<"z">> >>

\* C19: a rename fails with an error and leaves the stored labels and
\* prompts unchanged when the new name is already the name of another label
\* or when no label named oldName exists.
C19_BadRenameFails ==
    ( /\ IsRenameCall
      /\ \/ \E i \in 1..Len(lastCall.before.labels) :
               lastCall.before.labels[i].name = lastCall.label.name
         \/ \A i \in 1..Len(lastCall.before.labels) :
               lastCall.before.labels[i].name # lastCall.oldName.name )
    => /\ lastCall.threw
       /\ lastCall.error # None
       /\ Data = lastCall.before

C19_Witness ==
    /\ IsRenameCall
    /\ lastCall.threw
    /\ lastCall.error = "Cannot rename label: name exists"
    /\ Len(labels) = 2
    /\ Len(prompts) > 0

\* C20: savePrompt is an upsert keyed by name.  After a successful
\* savePrompt(p) exactly one stored prompt has p's name and it equals p, and
\* the prompts of other names are what they were; savePrompt with an empty
\* or whitespace-only name fails without changing storage; the stored
\* prompt names are pairwise distinct.
C20_SavePromptUpserts ==
    /\ (lastCall.op = "savePrompt" /\ ~lastCall.threw) =>
          /\ \E i \in 1..Len(prompts) :
                /\ prompts[i] = lastCall.prompt
                /\ \A j \in 1..Len(prompts) :
                      prompts[j].name = lastCall.prompt.name => j = i
          /\ SelectSeq(prompts, LAMBDA p : p.name # lastCall.prompt.name)
                = SelectSeq(lastCall.before.prompts,
                            LAMBDA p : p.name # lastCall.prompt.name)
    /\ (lastCall.op = "savePrompt" /\ IsBlank(lastCall.prompt.name)) =>
          /\ lastCall.threw
          /\ lastCall.error # None
          /\ Data = lastCall.before
    /\ \A i, j \in 1..Len(prompts) :
          prompts[i].name = prompts[j].name => i = j

C20_Witness ==
    /\ lastCall.op = "savePrompt"
    /\ ~lastCall.threw
    /\ Len(lastCall.before.prompts) = 2
    /\ lastCall.before.prompts[1].name = lastCall.prompt.name
    /\ lastCall.before.prompts[1] # lastCall.prompt
    /\ Len(prompts) = 2

\* C13: every message the router handles, whatever its action and whatever
\* fails inside its handler, is answered by exactly one response with a
\* boolean success field, a failure carrying success = FALSE and an error
\* string; nothing is left unanswered for a sender that is still connected,
\* and a sender whose port has closed has been told so.
C13_OneResponsePerMessage ==
    \A id \in 1..Len(port) :
        /\ Len(port[id].posted) <= 1
        /\ port[id].stage # "sent" =>
              \/ Len(port[id].posted) = 1
              \/ ~port[id].connected /\ port[id].outcome # "pending"
        /\ \A i \in 1..Len(port[id].posted) :
              /\ port[id].posted[i].success \in BOOLEAN
              /\ ~port[id].posted[i].success =>
                    port[id].posted[i].error.text # None

C13_Witness ==
    \E id \in 1..Len(port) :
        /\ port[id].message.action = "bogus"
        /\ port[id].stage = "handled"
        /\ Len(port[id].posted) = 1
        /\ ~port[id].posted[1].success
        /\ port[id].posted[1].error.text = "Unknown action"

\* C14: handling a refinePrompt, generateClarifyingQuestions or
\* generateFinalRefinedPrompt message, whether it succeeds or fails, leaves
\* the stored prompts and labels unchanged.
C14_RefinementLeavesStorage ==
    [][ \A id \in 1..Len(port) :
            ( /\ port[id].stage = "sent"
              /\ port[id].message.action \in llmActions
              /\ port'[id].stage = "handled" )
            => (prompts' = prompts /\ labels' = labels) ]_vars

C14_Witness ==
    \E id \in 1..Len(port) :
        /\ port[id].message.action = "refinePrompt"
        /\ port[id].stage = "handled"
        /\ Len(port[id].posted) = 1
        /\ port[id].posted[1].success
        /\ port[id].posted[1].refinedText # EmptyText
        /\ prompts = <<PromptX>>

\* C15: a request that timed out has committed nothing: the stored prompts,
\* labels, API keys and selected provider are not changed by its handler,
\* also when the handler finishes after the timeout.
C15_TimeoutCommitsNothing ==
    \A id \in 1..Len(port) :
        port[id].outcome = "timeout" => ~port[id].committed

\* the step in which the driver receives the outcome of req
ResponseStep(req, settle, http) ==
    CASE req.kind = "questions" -> GenerateQuestionsResponse(req, settle, http)
      [] req.kind = "fast" -> FastPathResponse(req, settle, http)
      [] OTHER -> FinalResponse(req, settle, http)

HttpFor(req) == IF req.kind = "questions" THEN ClarifyHttp ELSE RefineHttp

\* C16 as amended: no request is retried.  A step sends at most one
\* request; the step that receives the outcome of a request (a response, a
\* timeout or a disconnect) takes it out of flight and sends nothing,
\* except that a successful generateClarifyingQuestions response with no
\* question is followed by the one generateFinalRefinedPrompt request of
\* the initialization.
C16_NoAutomaticRetry ==
    [][ /\ Cardinality(inflight' \ inflight) <= 1
        /\ \A req \in inflight :
              (req \in inflight' \/ inflight' \ inflight # {}) =>
              \A settle \in Settle, http \in HttpFor(req) :
                 ResponseStep(req, settle, http) =>
                    /\ req \notin inflight'
                     /\ \A new \in inflight' \ inflight :
                           /\ req.kind = "questions"
                           /\ new.kind = "fast"
                           /\ new.action # req.action
                           /\ Settled(req, settle, http).success
                           /\ Len(Settled(req, settle, http).questions) = 0
      ]_vars

\* a request failed and its chat instance shows the error, with nothing in
\* flight
C16_Witness ==
    /\ showClarification
    /\ error = TransportError
    /\ lastPosted.action = "generateFinalRefinedPrompt"
    /\ lastPosted.session = session
    /\ inflight = {}

\* C16 as stated: each driver step sends at most one request, so the step
\* that receives the outcome of a request sends none.
C16_OneRequestPerStep ==
    [][ /\ Cardinality(inflight' \ inflight) <= 1
        /\ \A req \in inflight :
              \A settle \in Settle, http \in HttpFor(req) :
                 ResponseStep(req, settle, http) =>
                    /\ req \notin inflight'
                    /\ inflight' \subseteq inflight
      ]_vars

\* no name occurs twice in the list
NoDuplicates(list) ==
    \A i, j \in 1..Len(list) : list[i] = list[j] => i = j

RejectedAtBoundary ==
    /\ ~lastResponse.success
    /\ lastResponse.error.text \in
          {"Prompt content is required", "Conversation history is required"}
    /\ ~lastResponse.fetched
    /\ ~lastCompletion.called

\* C21: generateFinalRefinedPrompt rejects, without a provider call, a
\* blank promptContent and a conversationHistory that is missing or not an
\* array, and accepts an empty conversationHistory, which reaches the
\* refinement call; generateClarifyingQuestions rejects a blank
\* promptContent in the same way.
C21_BoundaryValidation ==
    /\ ( /\ lastMessage.action = "generateFinalRefinedPrompt"
         /\ \/ IsBlank(lastMessage.promptContent)
            \/ lastMessage.historyKind # "array" )
       => RejectedAtBoundary
    /\ ( /\ lastMessage.action = "generateClarifyingQuestions"
         /\ IsBlank(lastMessage.promptContent) )
       => RejectedAtBoundary
    /\ ( /\ lastMessage.action = "generateFinalRefinedPrompt"
         /\ ~IsBlank(lastMessage.promptContent)
         /\ lastMessage.historyKind = "array"
         /\ lastMessage.conversationHistory = << >> )
       => /\ ~RejectedAtBoundary
          /\ lastResponse.error.text # "No provider configured"
             => lastCompletion.called

C21_Witness ==
    /\ lastMessage.action = "generateFinalRefinedPrompt"
    /\ ~IsBlank(lastMessage.promptContent)
    /\ lastMessage.historyKind = "array"
    /\ lastMessage.conversationHistory = << >>
    /\ lastResponse.success
    /\ lastCompletion.called

\* the contents of the turns of a conversation, in order
ContentsOf(conv) == [k \in 1..Len(conv) |-> conv[k].content]

\* this step is a submit or an "answer later" that the chat accepted
AcceptedAnswerStep ==
    /\ session' = session
    /\ sends' = sends + 1 \/ defers' = defers + 1

\* this step is the pacing timer of an accepted submit showing the next question
PacingStep == session' = session /\ showClarification' /\ timers' # timers
                 /\ timers' \subseteq timers

\* C22: an accepted submit or "answer later" at question index i either
\* (i < n-1) appends question i+1 as an assistant turn, moves to index i+1 and
\* sends no generateFinalRefinedPrompt request, or (i = n-1) appends no
\* question and sends exactly one generateFinalRefinedPrompt request with
\* the full transcript; so a request with a non-empty transcript is sent
\* only when all n questions have been shown and the last one is answered
\* or deferred.
C22_AdvanceOrSynthesize ==
    [][ LET i == currentQuestionIndex
            n == Len(questions)
            next == Turn("assistant", QuestionAt(questions, i + 1))
        IN  /\ (AcceptedAnswerStep /\ i < n - 1) =>
                  /\ finalRequests' = finalRequests
                  /\ inflight' = inflight
                  /\ lastPosted' = lastPosted
                  /\ defers' = defers + 1 =>
                        /\ currentQuestionIndex' = i + 1
                        /\ conversation' = Append(conversation, next)
                  /\ sends' = sends + 1 =>
                        /\ currentQuestionIndex' = i
                        /\ timers' = {[session |-> session,
                                       updatedConv |-> conversation',
                                       nextIndex |-> i + 1]}
            /\ (PacingStep /\ i < n - 1) =>
                  /\ currentQuestionIndex' = i + 1
                  /\ conversation' = Append(conversation, next)
                  /\ inflight' = inflight
            /\ PacingStep => i < n - 1
            /\ (AcceptedAnswerStep /\ ~(i < n - 1)) =>
                  /\ i = n - 1
                  /\ currentQuestionIndex' = i
                  /\ AssistantTurns(conversation') =
                        AssistantTurns(conversation)
                  /\ timers' = timers
                  /\ finalRequests' = finalRequests + 1
                  /\ inflight \subseteq inflight'
                  /\ Cardinality(inflight' \ inflight) = 1
                  /\ \A r \in inflight' \ inflight :
                        /\ r.action = "generateFinalRefinedPrompt"
                        /\ r.session = session
                  /\ lastPosted'.action = "generateFinalRefinedPrompt"
                  /\ lastPosted'.conversationHistory = conversation'
            /\ ( /\ lastPosted' # lastPosted
                 /\ lastPosted'.action = "generateFinalRefinedPrompt"
                 /\ lastPosted'.conversationHistory # << >> ) =>
                  /\ AcceptedAnswerStep
                  /\ i = n - 1
                  /\ sends' + defers' >= n
                  /\ ContentsOf(AssistantTurns(
                         lastPosted'.conversationHistory)) = questions
      ]_vars

\* two questions: the first was answered, the second deferred, and the
\* final request went out with both questions and the one answer
C22_Witness ==
    /\ showClarification
    /\ Len(questions) = 2
    /\ sends = 1 /\ defers = 1
    /\ finalRequests = 1
    /\ lastPosted.action = "generateFinalRefinedPrompt"
    /\ Len(lastPosted.conversationHistory) = 3
    /\ \E r \in inflight : r.kind = "final"

\* this step is the driver's onCancel of chat instance s
InitFailureStep(s) ==
    sessionLog'[s].onCancel = sessionLog[s].onCancel + 1

\* C23: when initialization fails (the question request fails or carries no
\* question list, or the fast-path refinement request fails) the driver
\* alerts the error message and calls onCancel exactly once, which closes
\* the chat; that chat instance never calls onComplete and never shows a
\* question.  (The failed request is the one the step takes out of flight.)
C23_InitFailureCancelsOnce ==
    [][ \A s \in 1..MaxSessions :
          /\ InitFailureStep(s) =>
                /\ sessionLog[s].onCancel = 0
                /\ sessionLog'[s].alert # None
                /\ Mounted(s) => ~showClarification'
                /\ \A r \in inflight' : r.session # s
          /\ sessionLog[s].onCancel = 1 =>
                /\ sessionLog'[s].onCancel = 1
                /\ sessionLog'[s].onComplete = 0
                /\ ~sessionLog'[s].shown
                /\ ~Mounted(s)'
          /\ \/ InitFailureStep(s)
             \/ \A req \in inflight, settle \in Settle :
                ~( /\ req.session = s
                   /\ req \notin inflight'
                   /\ \/ /\ req.kind = "questions"
                         /\ \E http \in ClarifyHttp :
                               /\ LET resp == Settled(req, settle, http)
                                  IN  ~(resp.success /\ resp.hasQuestions)
                               /\ GenerateQuestionsResponse(req, settle, http)
                      \/ /\ req.kind = "fast"
                         /\ \E http \in RefineHttp :
                               /\ LET resp == Settled(req, settle, http)
                                  IN  ~(resp.success
                                        /\ Truthy(resp.refinedText))
                               /\ FastPathResponse(req, settle, http) )
      ]_vars

\* the fast-path refinement of a chat with zero questions failed: the chat
\* is closed, its onCancel was called once and the error was alerted
C23_Witness ==
    /\ session = 1
    /\ ~showClarification
    /\ sessionLog[1].onCancel = 1
    /\ sessionLog[1].onComplete = 0
    /\ sessionLog[1].alert # None
    /\ sessionLog[1].userCancel = "no"
    /\ lastPosted.session = 1
    /\ lastPosted.action = "generateFinalRefinedPrompt"
    /\ lastPosted.conversationHistory = << >>

\* the chat on screen has received a non-empty question list
InQuestionSession == showClarification /\ Len(questions) >= 1

\* the user turns of a conversation, in order
UserTurns(conv) == SelectSeq(conv, LAMBDA t : t.role = "user")

\* while a chat with n >= 1 questions is on screen, 0 <= currentQuestionIndex
\* <= n-1, the assistant turns of the conversation are exactly
\* questions[0..currentQuestionIndex] in order, and no user turn is blank
IndexAndTurns ==
    InQuestionSession =>
        /\ currentQuestionIndex \in 0..(Len(questions) - 1)
        /\ ContentsOf(AssistantTurns(conversation)) =
              SubSeq(questions, 1, currentQuestionIndex + 1)
        /\ \A k \in 1..Len(conversation) :
              conversation[k].role = "user"
                  => ~IsBlank(conversation[k].content)

\* in a chat that stays on screen the index and the conversation only change
\* in the pacing step of an accepted answer or in an accepted action that
\* started with isLoading and isGeneratingQuestions clear, and an accepted
\* submit appends one non-blank user turn
RefusedWhileBusy ==
    [][ ( /\ InQuestionSession /\ showClarification' /\ session' = session
          /\ \/ conversation' # conversation
             \/ currentQuestionIndex' # currentQuestionIndex
             \/ AcceptedAnswerStep )
        => \/ PacingStep /\ isLoading
           \/ /\ AcceptedAnswerStep
              /\ ~isLoading /\ ~isGeneratingQuestions
              /\ sends' = sends + 1 =>
                    /\ Len(conversation') = Len(conversation) + 1
                    /\ SubSeq(conversation', 1, Len(conversation))
                          = conversation
                    /\ conversation'[Len(conversation')].role = "user"
                    /\ ~IsBlank(conversation'[Len(conversation')].content)
      ]_vars

\* C29: in every state of a chat with n >= 1 questions, 0 <=
\* currentQuestionIndex <= n-1 and the assistant turns of the conversation
\* are exactly questions[0..currentQuestionIndex] in order; a submit of a
\* blank answer, and a submit or an "answer later" issued while isLoading or
\* isGeneratingQuestions is set, change neither the index nor the
\* conversation.
C29_IndexWithinQuestions == []IndexAndTurns /\ RefusedWhileBusy

\* three questions, the third one on screen after one answer and one deferral
C29_Witness ==
    /\ InQuestionSession
    /\ Len(questions) = 3
    /\ currentQuestionIndex = 2
    /\ sends = 1 /\ defers = 1
    /\ Len(conversation) = 4
    /\ ~isLoading

\* request id is a refinePrompt request whose promise was resolved with a
\* response that asks for clarification
ClarificationAnswered(id) ==
    /\ port[id].message.action = "refinePrompt"
    /\ port[id].outcome = "resolved"
    /\ port[id].posted[1].success
    /\ port[id].posted[1].hasQuestions
    /\ Len(port[id].posted[1].questions) > 0

\* C24: when the refinePrompt action answers with success, needsClarification
\* and questions, handleRefineInEditor raises ClarificationNeededError and
\* not a generic error.
C24_ClarificationNeededRaised ==
    \A id \in 1..Len(port) :
        ClarificationAnswered(id)
            => port[id].caller.kind = "ClarificationNeededError"

\* request id is pending exactly while nothing has settled its promise
PendingIsUnsettled ==
    \A id \in 1..Len(port) :
        (id \in pendingMessages) <=> (port[id].outcome = "pending")

\* a settled promise stays as it is, a promise is resolved only by the
\* response of its own request, and a response that finds no pending entry
\* settles nothing
SettlesOnce ==
    [][ \A id \in 1..Len(port) :
          /\ port[id].outcome # "pending"
                => port'[id].outcome = port[id].outcome
          /\ (port[id].outcome = "pending" /\ port'[id].outcome = "resolved")
                => /\ port[id].stage = "handled"
                   /\ Len(port[id].posted) = 1
                   /\ port'[id].stage = "received"
                   /\ pendingMessages' = pendingMessages \ {id}
          /\ (port[id].outcome = "pending" /\ port'[id].outcome # "pending")
                => id \notin pendingMessages'
          /\ ( /\ port[id].stage = "handled"
               /\ port'[id].stage = "received"
               /\ id \notin pendingMessages )
                => /\ pendingMessages' = pendingMessages
                   /\ \A j \in 1..Len(port) :
                         port'[j].outcome = port[j].outcome
      ]_vars

\* C27: every request sent over the connection settles exactly once: its
\* promise is eventually resolved by the response with its messageId, or
\* rejected by its timeout or by a disconnect, and by one of them only; it
\* leaves pendingMessages when it settles; and a response for a messageId
\* that has timed out or was rejected is ignored and settles no request.
C27_SettlesExactlyOnce ==
    /\ []PendingIsUnsettled
    /\ SettlesOnce
    /\ \A id \in 1..MaxConcurrent :
          (id \in pendingMessages)
              ~> ( /\ id \notin pendingMessages
                   /\ id \in 1..Len(port)
                   /\ port[id].outcome \in {"resolved", "timeout", "closed"} )

\* the response of a request that had timed out has arrived and was ignored,
\* while a second request is pending
C27_Witness ==
    /\ Len(port) = 2
    /\ port[1].outcome = "timeout"
    /\ port[1].stage = "received"
    /\ port[2].outcome = "pending"
    /\ pendingMessages = {2}


\* the module's backgroundPort is set exactly when a port is open, and no
\* second port is ever open
OnePort ==
    /\ connection.open \in {0, 1}
    /\ connection.backgroundPort <=> (connection.open = 1)

\* a step of onDisconnect rejects every pending request with "Service worker
\* connection closed", empties pendingMessages and arms the reconnection timer
DisconnectRejectsAll ==
    [][ connection'.open < connection.open =>
            /\ ~connection'.backgroundPort
            /\ pendingMessages' = {}
            /\ connection'.timers = connection.timers + 1
            /\ \A id \in pendingMessages :
                  port'[id].outcome = "closed"
            /\ \A id \in 1..Len(port) :
                  id \notin pendingMessages =>
                      port'[id].outcome = port[id].outcome ]_vars

\* the reconnection timer calls chrome.runtime.connect when no port is set:
\* a port is open afterwards unless the call threw
ReconnectAttempt ==
    [][ (connection'.timers < connection.timers /\ ~connection.backgroundPort)
            => (connection'.backgroundPort \/ connection'.threw) ]_vars

\* C28: at most one background port is open at any time; a disconnect rejects
\* every pending request and leaves pendingMessages empty; after the delay a
\* reconnection is attempted, which opens a new connection unless
\* chrome.runtime.connect throws.
C28_OnePortAndReconnectAttempt ==
    /\ []OnePort
    /\ DisconnectRejectsAll
    /\ ReconnectAttempt
    /\ (~connection.backgroundPort /\ connection.timers > 0)
           ~> (connection.backgroundPort \/ connection.threw)

\* C28 as stated: after a disconnect a new connection is eventually opened
C28_ReconnectsEventually ==
    /\ []OnePort
    /\ DisconnectRejectsAll
    /\ (~connection.backgroundPort /\ connection.timers > 0)
           ~> connection.backgroundPort

\* a request was rejected by a disconnect, and the reconnection timer has
\* opened the one port again
C28_Witness ==
    /\ \E id \in 1..Len(port) :
          port[id].outcome = "closed" /\ ~port[id].connected
    /\ pendingMessages = {}
    /\ connection.backgroundPort
    /\ connection.open = 1
    /\ connection.timers = 0
    /\ Len(connection.waiting) = 0
    /\ messageIdCounter = 1


\* the handler of request id has finished and posted a success
Completed(id) ==
    /\ port[id].stage \in {"handled", "received"}
    /\ Len(port[id].posted) = 1
    /\ port[id].posted[1].success

\* the handler of request id finishes in this step
Finishes(id) ==
    /\ id \in 1..Len(port)
    /\ port[id].stage # "handled"
    /\ port'[id].stage = "handled"

KeyActions == {"setProviderApiKey", "deleteProviderApiKey"}

\* C25: a key operation on provider X neither changes nor removes the stored
\* key of any other provider, whatever the interleaving of two key
\* operations; once setProviderApiKey(X, a) and setProviderApiKey(Y, b)
\* have both completed, both keys are stored.
C25_KeysIndependent ==
    /\ [][ \A id \in 1..Len(port) :
              (Finishes(id) /\ port[id].message.action \in KeyActions) =>
                  \A p \in (DOMAIN providerApiKeys) \cup
                              (DOMAIN providerApiKeys') :
                      p # port[id].message.providerId =>
                          getProviderApiKey(providerApiKeys', p) =
                              getProviderApiKey(providerApiKeys, p) ]_vars
    /\ [](\A i, j \in 1..Len(port) :
              ( /\ Len(port) = 2
                /\ port[i].message.action = "setProviderApiKey"
                /\ port[j].message.action = "setProviderApiKey"
                /\ port[i].message.providerId # port[j].message.providerId
                /\ Completed(i)
                /\ Completed(j) )
              => /\ getProviderApiKey(providerApiKeys, port[i].message.providerId)
                        = port[i].message.apiKey
                 /\ getProviderApiKey(providerApiKeys, port[j].message.providerId)
                        = port[j].message.apiKey)

\* C26: savePrompt and deletePrompt leave the stored labels unchanged and a
\* saveLabel that is not a rename leaves the stored prompts unchanged,
\* whatever the interleaving of two such operations; once a savePrompt and
\* a saveLabel have both completed, the prompt and the label are both stored.
C26_PromptsAndLabelsIndependent ==
    /\ [][ \A id \in 1..Len(port) :
              /\ (Finishes(id) /\ port[id].message.action
                                      \in {"savePrompt", "deletePrompt"})
                     => labels' = labels
              /\ (Finishes(id) /\ port[id].message.action = "saveLabel"
                               /\ ~port[id].message.oldName.given)
                     => prompts' = prompts ]_vars
    /\ [](\A i, j \in 1..Len(port) :
              ( /\ Len(port) = 2
                /\ port[i].message.action = "savePrompt"
                /\ port[j].message.action = "saveLabel"
                /\ ~port[j].message.oldName.given
                /\ Completed(i)
                /\ Completed(j) )
              => /\ \E k \in 1..Len(prompts) :
                        prompts[k] = port[i].message.prompt
                 /\ \E k \in 1..Len(labels) :
                        labels[k] = port[j].message.label)

============================================================================
